---- MODULE Spec2Model ----
(***************************************************************************)
(* A model of the boa configuration library: the shared rune lexer, the    *)
(* TOML and JSON5 lexers and parsers, the replay encoder, and the binding  *)
(* engine's environment overlay.                                           *)
(*                                                                         *)
(* Runes are one-character strings, texts are sequences of runes.          *)
(***************************************************************************)
EXTENDS Integers, Sequences, FiniteSets, TLC

VARIABLES
    input,      \* the document handed to the decoder (a sequence of runes)
    lexer,      \* the syntax.Lexer of the current parse
    parser,     \* the parser of the current parse (TOML or JSON5)
    output,     \* what the encoder has written and the decoder has bound
    env,        \* the decoder options of the environment overlay
    dest        \* the destination of a decode with environment overlay

vars == <<input, lexer, parser, output, env, dest>>

(***************************************************************************)
(* Bounds of the model.                                                    *)
(***************************************************************************)
MaxLines == 4
MaxFiles == 2
MaxElems == 2

(***************************************************************************)
(* Sequence helpers.                                                       *)
(***************************************************************************)
RECURSIVE Flatten(_)
Flatten(ss) == IF ss = <<>> THEN <<>> ELSE Head(ss) \o Flatten(Tail(ss))

Last(s) == s[Len(s)]

Front(s) == SubSeq(s, 1, Len(s) - 1)

GoMod(a, b) == IF a >= 0 THEN a % b ELSE 0 - ((0 - a) % b)

(***************************************************************************)
(* syntax/lex.go: cursors, tokens, the 2-rune back buffer, the lexer.      *)
(***************************************************************************)
BackbufferLen == 2
TokensCap == 2

StartCursor == [line |-> 1, col |-> 1]
ZeroCursor == [line |-> 0, col |-> 0]

TokenEOF == ""
TokenError == "<error>"
TokenComment == "<comment>"
TokenInlineComment == "<inline-comment>"
TokenString == "<string>"
TokenNumber == "<number>"
TokenBool == "<bool>"
TokenIdentifier == "<identifier>"
TokenNil == "<nil>"
TokenNewline == "<newline>"
TokenWhitespace == "<whitespace>"

NoValue == [k |-> "none"]
ErrValue(e) == [k |-> "error", err |-> e]
StrValue(s) == [k |-> "string", s |-> s]
BoolValue(b) == [k |-> "bool", b |-> b]
IntValue(n) == [k |-> "int", n |-> n]
FloatValue(s) == [k |-> "float", s |-> s]

ZeroToken == [type |-> TokenEOF, raw |-> <<>>, val |-> NoValue,
              start |-> ZeroCursor, end |-> ZeroCursor]

EOF == "EOF"
ErrUnexpectedEOF == "unexpected EOF"

ZeroEntry == [r |-> "", w |-> 0, next |-> ZeroCursor, pos |-> ZeroCursor]

inc(i, n) ==
    LET m == GoMod(i + n, BackbufferLen)
    IN  IF m < 0 THEN m + BackbufferLen ELSE m

NewLexer(in, init) ==
    [Input |-> in,
     TokenPosition |-> StartCursor,
     NextPosition |-> StartCursor,
     Position |-> StartCursor,
     state |-> init,
     token |-> <<>>,
     tokens |-> <<>>,
     closed |-> FALSE,
     buf |-> [i \in 1 .. BackbufferLen |-> ZeroEntry],
     rlen |-> 0,
     widx |-> 0,
     unread |-> 0,
     burst |-> 0,
     panic |-> ""]

Panic(l, msg) == IF l.panic = "" THEN [l EXCEPT !.panic = msg] ELSE l

\* backbuffer.write
bbWrite(l, r, w, next, pos) ==
    IF l.rlen # 0
    THEN Panic(l, "can't write into backbuffer while there are unread runes")
    ELSE [l EXCEPT !.buf[l.widx + 1] = [r |-> r, w |-> w, next |-> next, pos |-> pos],
                   !.widx = inc(l.widx, 1)]

\* backbuffer.read
bbRead(l) ==
    IF l.rlen = 0
    THEN [l |-> Panic(l, "no runes in backbuffer"), e |-> ZeroEntry]
    ELSE [l |-> [l EXCEPT !.rlen = l.rlen - 1],
          e |-> l.buf[inc(l.widx, 0 - l.rlen) + 1]]

\* backbuffer.unread on a buffer that holds one rune only.
bbUnreadOneSlot(l) ==
    IF l.rlen >= 1
    THEN [l |-> Panic(l, "can't unread more bytes than backbuffer capacity"),
          e |-> ZeroEntry]
    ELSE LET e == l.buf[inc(l.widx, 0 - (l.rlen + 1)) + 1]
         IN  IF e.w = 0
             THEN [l |-> Panic([l EXCEPT !.rlen = l.rlen + 1],
                               "can't unread more bytes than backbuffer length"),
                   e |-> e]
             ELSE [l |-> [l EXCEPT !.rlen = l.rlen + 1], e |-> e]

\* backbuffer.unread
bbUnread(l) ==
    IF l.rlen >= BackbufferLen
    THEN [l |-> Panic(l, "can't unread more bytes than backbuffer capacity"),
          e |-> ZeroEntry]
    ELSE LET e == l.buf[inc(l.widx, 0 - (l.rlen + 1)) + 1]
         IN  IF e.w = 0
             THEN [l |-> Panic([l EXCEPT !.rlen = l.rlen + 1],
                               "can't unread more bytes than backbuffer length"),
                   e |-> e]
             ELSE [l |-> [l EXCEPT !.rlen = l.rlen + 1], e |-> e]

Advance(cur, r) ==
    IF r = "\n" THEN [line |-> cur.line + 1, col |-> 1]
    ELSE [cur EXCEPT !.col = cur.col + 1]

\* Lexer.ReadRune on a rune that was put back: rd is what the backbuffer
\* gives.
ReadAgain(l, rd) ==
    IF rd.l.panic # "" THEN [l |-> rd.l, r |-> "", err |-> "panic"]
    ELSE [l |-> [rd.l EXCEPT !.unread = l.unread - 1,
                             !.token = Append(l.token, rd.e.r),
                             !.Position = rd.e.next,
                             !.NextPosition = Advance(rd.e.next, rd.e.r)],
          r |-> rd.e.r, err |-> ""]

\* Lexer.ReadRune on a rune r of the input: l1 is the lexer after the write
\* to the backbuffer.
ReadInput(l, r, l1) ==
    IF l1.panic # "" THEN [l |-> l1, r |-> "", err |-> "panic"]
    ELSE [l |-> [l1 EXCEPT !.token = Append(l.token, r),
                           !.Position = l.NextPosition,
                           !.NextPosition = Advance(l.NextPosition, r)],
          r |-> r, err |-> ""]

\* Lexer.ReadRune: the rune, the error ("" for none) and the lexer after it.
ReadRune(l) ==
    IF l.panic # "" THEN [l |-> l, r |-> "", err |-> "panic"]
    ELSE IF l.unread > 0 THEN ReadAgain(l, bbRead(l))
    ELSE IF l.Input = <<>> THEN [l |-> l, r |-> "", err |-> EOF]
    ELSE ReadInput(l, Head(l.Input),
                   bbWrite([l EXCEPT !.Input = Tail(l.Input)], Head(l.Input), 1,
                           l.NextPosition, l.Position))

\* The positions go back to those of the entry u.e the backbuffer gives.
UnreadKeepingToken(l, u) ==
    IF u.l.panic # "" THEN u.l
    ELSE [u.l EXCEPT !.unread = l.unread + 1,
                     !.NextPosition = u.e.next,
                     !.Position = u.e.pos]

\* Lexer.UnreadRune without "l.token.Truncate(l.token.Len() - w)": the rune
\* stays in the token under construction and is read into it again.
UnreadRuneKeepingToken(l) ==
    IF l.panic # "" THEN l ELSE UnreadKeepingToken(l, bbUnread(l))

\* The positions go back to those of the entry u.e the backbuffer gives, and
\* the token under construction loses the rune.
Unread(l, u) ==
    IF u.l.panic # "" THEN u.l
    ELSE IF Len(l.token) < u.e.w
    THEN Panic(u.l, "bytes.Buffer: truncation out of range")
    ELSE [u.l EXCEPT !.unread = l.unread + 1,
                     !.NextPosition = u.e.next,
                     !.Position = u.e.pos,
                     !.token = SubSeq(l.token, 1, Len(l.token) - u.e.w)]

\* Lexer.UnreadRune
UnreadRune(l) ==
    IF l.panic # "" THEN l ELSE Unread(l, bbUnread(l))

PutBackUnlessError(rd) ==
    IF rd.err # "" THEN rd ELSE [rd EXCEPT !.l = UnreadRune(rd.l)]

\* Lexer.PeekRune
PeekRune(l) == PutBackUnlessError(ReadRune(l))

\* A send on a channel that holds one token only.
SendOneSlot(l, tok) ==
    IF l.burst >= 1
    THEN Panic(l, "send on a full token channel")
    ELSE [l EXCEPT !.tokens = Append(l.tokens, tok), !.burst = l.burst + 1]

\* A send on l.tokens: the channel holds TokensCap tokens, the reader takes
\* them only between two state functions.
Send(l, tok) ==
    IF l.burst >= TokensCap
    THEN Panic(l, "send on a full token channel")
    ELSE [l EXCEPT !.tokens = Append(l.tokens, tok), !.burst = l.burst + 1]

\* Lexer.Emit
Emit(l, typ, val) ==
    IF l.panic # "" THEN l
    ELSE LET tok == [type |-> typ, raw |-> l.token, val |-> val,
                     start |-> l.TokenPosition, end |-> l.Position]
             l1 == Send([l EXCEPT !.token = <<>>], tok)
         IN  [l1 EXCEPT !.TokenPosition = l.NextPosition]

\* Lexer.Error without close(l.tokens) and with the state function kept.
ErrorStaysOpen(l, err) ==
    IF l.panic # "" \/ err = "panic" THEN l
    ELSE LET tok == [type |-> IF err = EOF THEN TokenEOF ELSE TokenError,
                     raw |-> l.token, val |-> ErrValue(err),
                     start |-> l.TokenPosition, end |-> l.Position]
         IN  [Send(l, tok) EXCEPT !.TokenPosition = l.NextPosition]

\* Lexer.Error: the token buffer is kept, the channel is closed and the
\* state function returned is nil.
Error(l, err) ==
    IF l.panic # "" \/ err = "panic" THEN [l EXCEPT !.state = "nil"]
    ELSE LET tok == [type |-> IF err = EOF THEN TokenEOF ELSE TokenError,
                     raw |-> l.token, val |-> ErrValue(err),
                     start |-> l.TokenPosition, end |-> l.Position]
             l1 == Send(l, tok)
         IN  [l1 EXCEPT !.TokenPosition = l.NextPosition,
                        !.closed = TRUE,
                        !.state = "nil"]

Expect(rd, exp) ==
    IF rd.err # "" THEN rd
    ELSE IF rd.r # exp THEN [rd EXCEPT !.err = "expected character"]
    ELSE rd

\* Lexer.AcceptRune
AcceptRune(l, exp) == Expect(ReadRune(l), exp)

ExpectIn(rd, S) ==
    IF rd.err # "" THEN rd
    ELSE IF rd.r \notin S THEN [rd EXCEPT !.err = "unexpected character"]
    ELSE rd

\* Lexer.AcceptFunc, the predicate given as the set of runes it accepts.
AcceptFunc(l, S) == ExpectIn(ReadRune(l), S)

\* Lexer.AcceptString
RECURSIVE AcceptString(_, _)
AcceptStringRune(rd, exp) ==
    IF rd.err # "" THEN [l |-> rd.l, err |-> rd.err]
    ELSE IF rd.r # Head(exp)
    THEN [l |-> rd.l, err |-> "unexpected character in expected string"]
    ELSE AcceptString(rd.l, Tail(exp))

AcceptString(l, exp) ==
    IF exp = <<>> THEN [l |-> l, err |-> ""]
    ELSE AcceptStringRune(ReadRune(l), exp)

\* Lexer.AcceptUntil, the predicate given as the set of runes it accepts.
RECURSIVE AcceptUntilFrom(_, _, _)
AcceptUntilRune(rd, S, acc) ==
    IF rd.err = EOF THEN [l |-> rd.l, s |-> acc, err |-> ""]
    ELSE IF rd.err # "" THEN [l |-> rd.l, s |-> <<>>, err |-> rd.err]
    ELSE IF rd.r \notin S THEN [l |-> UnreadRune(rd.l), s |-> acc, err |-> ""]
    ELSE AcceptUntilFrom(rd.l, S, Append(acc, rd.r))

AcceptUntilFrom(l, S, acc) == AcceptUntilRune(ReadRune(l), S, acc)

AcceptUntil(l, S) == AcceptUntilFrom(l, S, <<>>)

(***************************************************************************)
(* Rune classes.                                                           *)
(***************************************************************************)
Digits == {"0", "1", "2", "3", "4", "5", "6", "7", "8", "9"}
Lower == {"a", "b", "c", "d", "e", "f", "g", "h", "i", "j", "k", "l", "m",
          "n", "o", "p", "q", "r", "s", "t", "u", "v", "w", "x", "y", "z"}
Upper == {"A", "B", "C", "D", "E", "F", "G", "H", "I", "J", "K", "L", "M",
          "N", "O", "P", "Q", "R", "S", "T", "U", "V", "W", "X", "Y", "Z"}
HexDigits == Digits \cup {"a", "b", "c", "d", "e", "f"}
                    \cup {"A", "B", "C", "D", "E", "F"}
Punct == {" ", "\t", "\n", "\r", "=", ".", ",", "{", "}", "[", "]", "#",
          "\"", "'", "\\", "+", "-", "_", ":", "/", "*", "$"}
Runes == Digits \cup Lower \cup Upper \cup Punct

isSpace == {" ", "\t"}
isNewline == {"\n", "\r"}
isBadControlChar == {"\r"}
isIdentifierChar == Lower \cup Upper \cup Digits \cup {"_", "-"}

DigitVal(d) ==
    CASE d = "0" -> 0 [] d = "1" -> 1 [] d = "2" -> 2 [] d = "3" -> 3
      [] d = "4" -> 4 [] d = "5" -> 5 [] d = "6" -> 6 [] d = "7" -> 7
      [] d = "8" -> 8 [] d = "9" -> 9

(***************************************************************************)
(* Regular expressions and syntax.Regexp.Accept.  A regular expression is  *)
(* kept as a term; the set of live threads of the program after a run of   *)
(* runes is the derivative of the term by that run.                        *)
(***************************************************************************)
REmpty == [k |-> "empty"]
REps == [k |-> "eps"]
RSet(S) == [k |-> "set", s |-> S]
RCat(a, b) ==
    IF a.k = "empty" \/ b.k = "empty" THEN REmpty
    ELSE IF a.k = "eps" THEN b
    ELSE IF b.k = "eps" THEN a
    ELSE [k |-> "cat", a |-> a, b |-> b]
RAlt(a, b) ==
    IF a.k = "empty" THEN b
    ELSE IF b.k = "empty" THEN a
    ELSE [k |-> "alt", a |-> a, b |-> b]
RStar(a) == [k |-> "star", a |-> a]
ROpt(a) == RAlt(a, REps)
RPlus(a) == RCat(a, RStar(a))
RChr(c) == RSet({c})

RECURSIVE RStr(_)
RStr(s) == IF s = <<>> THEN REps ELSE RCat(RChr(Head(s)), RStr(Tail(s)))

RECURSIVE Nullable(_)
Nullable(re) ==
    CASE re.k = "empty" -> FALSE
      [] re.k = "eps" -> TRUE
      [] re.k = "set" -> FALSE
      [] re.k = "cat" -> Nullable(re.a) /\ Nullable(re.b)
      [] re.k = "alt" -> Nullable(re.a) \/ Nullable(re.b)
      [] re.k = "star" -> TRUE

RECURSIVE Deriv(_, _)
Deriv(re, c) ==
    CASE re.k = "empty" -> REmpty
      [] re.k = "eps" -> REmpty
      [] re.k = "set" -> IF c \in re.s THEN REps ELSE REmpty
      [] re.k = "cat" ->
            RAlt(RCat(Deriv(re.a, c), re.b),
                 IF Nullable(re.a) THEN Deriv(re.b, c) ELSE REmpty)
      [] re.k = "alt" -> RAlt(Deriv(re.a, c), Deriv(re.b, c))
      [] re.k = "star" -> RCat(Deriv(re.a, c), re)

RECURSIVE DerivSeq(_, _)
DerivSeq(re, s) == IF s = <<>> THEN re ELSE DerivSeq(Deriv(re, Head(s)), Tail(s))

Matches(re, s) == Nullable(DerivSeq(re, s))

\* The loop of Regexp.Accept: cur is the set of live threads, s the runes
\* written to out, pos the number of runes consumed, last the position of the
\* last match seen.
RECURSIVE AcceptLoop(_, _, _, _, _)
AcceptLoopRune(rd, cur, pos, last, last1, s) ==
    IF rd.err # ""
    THEN [l |-> rd.l, s |-> s, pos |-> pos, last |-> last1, err |-> rd.err]
    ELSE AcceptLoop(rd.l, Deriv(cur, rd.r), pos + 1, last1, Append(s, rd.r))

AcceptLoop(l, cur, pos, last, s) ==
    IF cur.k = "empty"
    THEN [l |-> UnreadRune(l), s |-> SubSeq(s, 1, pos - 1), pos |-> pos - 1,
          last |-> last, err |-> ""]
    ELSE AcceptLoopRune(ReadRune(l), cur, pos, last,
                        IF Nullable(cur) THEN pos ELSE last, s)

\* The return of Regexp.Accept after its loop.
Accepted(a) ==
    LET err == IF a.err = EOF
               THEN (IF a.last = -1 THEN ErrUnexpectedEOF ELSE "")
               ELSE a.err
    IN  IF err # "" THEN [l |-> a.l, s |-> <<>>, err |-> err]
        ELSE IF a.last # a.pos
        THEN [l |-> a.l, s |-> <<>>, err |-> "character sequence does not match"]
        ELSE [l |-> a.l, s |-> a.s, err |-> ""]

\* Regexp.Accept: the run accepted, or an error.
RegexpAccept(l, re) == Accepted(AcceptLoop(l, re, 0, -1, <<>>))

(***************************************************************************)
(* The TOML lexer.                                                         *)
(***************************************************************************)
TokenEqual == "'='"
TokenDot == "'.'"
TokenComma == "','"
TokenLBrace == "'{'"
TokenRBrace == "'}'"
TokenLSquare == "'['"
TokenRSquare == "']'"
TokenDoubleLSquare == "'[['"
TokenDoubleRSquare == "']]'"
TokenDateTime == "<datetime>"

NaNValue == [k |-> "nan"]
InfValue(sign) == [k |-> "inf", sign |-> sign]
DateTimeValue(s) == [k |-> "datetime", s |-> s]

HasSuffix(s, suf) ==
    Len(s) >= Len(suf) /\ SubSeq(s, Len(s) - Len(suf) + 1, Len(s)) = suf

ContainsAny(s, S) == \E i \in 1 .. Len(s) : s[i] \in S

RECURSIVE RCats(_)
RCats(rs) == IF rs = <<>> THEN REps ELSE RCat(Head(rs), RCats(Tail(rs)))

RECURSIVE RAlts(_)
RAlts(rs) == IF rs = <<>> THEN REmpty ELSE RAlt(Head(rs), RAlts(Tail(rs)))

rsign == ROpt(RSet({"-", "+"}))
rdigits == RCat(RSet(Digits), RStar(RSet(Digits \cup {"_"})))
rnonzero == RCat(RSet(Digits \ {"0"}), RStar(RSet(Digits \cup {"_"})))

rinteger ==
    RAlt(RCat(RChr("0"),
              ROpt(RAlts(<<
                  RCats(<<RChr("b"), RSet({"0", "1"}), RStar(RSet({"0", "1", "_"}))>>),
                  RCats(<<RChr("o"), RSet(Digits \ {"8", "9"}),
                          RStar(RSet((Digits \ {"8", "9"}) \cup {"_"}))>>),
                  RCats(<<RChr("x"), RSet(HexDigits),
                          RStar(RSet(HexDigits \cup {"_"}))>>)>>))),
         RCat(rsign, rnonzero))

rnumber ==
    RAlt(rinteger,
         RCat(rsign,
              RAlts(<<RStr(<<"i", "n", "f">>),
                      RStr(<<"n", "a", "n">>),
                      RCats(<<RAlt(RChr("0"), rnonzero),
                              ROpt(RCat(RChr("."), rdigits)),
                              ROpt(RCats(<<RSet({"e", "E"}), rsign, rdigits>>))>>)>>)))

r2digits == RCat(RSet(Digits), RSet(Digits))

rdate ==
    RCats(<<RPlus(RSet(Digits)), RChr("-"), RPlus(RSet(Digits)), RChr("-"),
            RPlus(RSet(Digits))>>)

rtime ==
    RCats(<<r2digits, RChr(":"), r2digits, RChr(":"), r2digits,
            ROpt(RCat(RChr("."), RPlus(RSet(Digits))))>>)

rdatetime ==
    RAlts(<<RCat(rdate, ROpt(RChr(" "))),
            rtime,
            RCats(<<rdate, RSet({"t", "T", " "}), rtime,
                    ROpt(RAlt(RSet({"z", "Z"}),
                              RCats(<<RSet({"z", "Z", "+", "-"}), r2digits,
                                      RChr(":"), r2digits>>)))>>)>>)

rkey == RPlus(RSet(isIdentifierChar))

reNDK == RAlts(<<rnumber, rdatetime, rkey>>)

\* Underscores of a number literal have to separate two digits.
UnderscoresOK(s, D) ==
    \A i \in 1 .. Len(s) :
        s[i] = "_" => /\ i > 1 /\ i < Len(s)
                      /\ s[i - 1] \in D /\ s[i + 1] \in D

HexVal(d) ==
    CASE d \in Digits -> DigitVal(d)
      [] d \in {"a", "A"} -> 10 [] d \in {"b", "B"} -> 11
      [] d \in {"c", "C"} -> 12 [] d \in {"d", "D"} -> 13
      [] d \in {"e", "E"} -> 14 [] d \in {"f", "F"} -> 15

RECURSIVE ParseDigits(_, _, _)
ParseDigits(s, base, acc) ==
    IF s = <<>> THEN acc
    ELSE IF Head(s) = "_" THEN ParseDigits(Tail(s), base, acc)
    ELSE ParseDigits(Tail(s), base, acc * base + HexVal(Head(s)))

\* big.Int.SetString(num, 0) on a run accepted by rinteger.
SetString(num) ==
    LET neg == num[1] = "-"
        body == IF num[1] \in {"-", "+"} THEN Tail(num) ELSE num
        based == Len(body) >= 2 /\ body[1] = "0" /\ body[2] \in {"b", "o", "x"}
        base == IF ~based THEN 10
                ELSE IF body[2] = "b" THEN 2 ELSE IF body[2] = "o" THEN 8 ELSE 16
        digits == IF based THEN SubSeq(body, 3, Len(body)) ELSE body
        n == ParseDigits(digits, base, 0)
    IN  [ok |-> UnderscoresOK(digits, IF base = 16 THEN HexDigits ELSE Digits), n |-> IF neg THEN 0 - n ELSE n]

\* time.Parse against the five layouts, by the shape of the text only.
layouts ==
    LET date == RCats(<<r2digits, r2digits, RChr("-"), r2digits, RChr("-"), r2digits>>)
        time == RCats(<<r2digits, RChr(":"), r2digits, RChr(":"), r2digits,
                        ROpt(RCat(RChr("."), RPlus(RSet(Digits))))>>)
        zone == RAlt(RChr("Z"), RCats(<<RSet({"+", "-"}), r2digits, RChr(":"), r2digits>>))
    IN  RAlts(<<RCats(<<date, RChr("T"), time, zone>>),
                RCats(<<date, RChr("T"), time>>),
                date,
                time>>)

ToUpper(r) ==
    IF r = " " THEN "T" ELSE IF r = "t" THEN "T" ELSE IF r = "z" THEN "Z" ELSE r

RECURSIVE TrimRight(_, _)
TrimRight(s, S) ==
    IF s # <<>> /\ s[Len(s)] \in S THEN TrimRight(SubSeq(s, 1, Len(s) - 1), S) ELSE s

RECURSIVE TrimLeft(_, _)
TrimLeft(s, S) ==
    IF s # <<>> /\ Head(s) \in S THEN TrimLeft(Tail(s), S) ELSE s

TrimSpace(s) == TrimLeft(TrimRight(s, {" ", "\t", "\n", "\r"}), {" ", "\t", "\n", "\r"})

\* lexerState.lexNumberOrDateOrKey after the call of Accept: a number.
lexNumber(l, num) ==
    IF HasSuffix(num, <<"n", "a", "n">>)
    THEN [Emit(l, TokenNumber, NaNValue) EXCEPT !.state = "lex"]
    ELSE IF HasSuffix(num, <<"i", "n", "f">>)
    THEN [Emit(l, TokenNumber, InfValue(IF num[1] = "-" THEN -1 ELSE 1))
              EXCEPT !.state = "lex"]
    ELSE IF /\ (Len(num) < 2 \/ num[1] # "0" \/ num[2] \notin {"o", "b", "x"})
            /\ ContainsAny(Tail(num), {"e", "E", "+", "-", "."})
    THEN (IF ContainsAny(num, {"o", "b", "x"})
          THEN Error(l, "invalid float")
          ELSE IF ~UnderscoresOK(num, Digits)
          THEN Error(l, "big.ParseFloat: invalid syntax")
          ELSE [Emit(l, TokenNumber, FloatValue(num)) EXCEPT !.state = "lex"])
    ELSE IF ~SetString(num).ok THEN Error(l, "invalid integer")
    ELSE [Emit(l, TokenNumber, IntValue(SetString(num).n)) EXCEPT !.state = "lex"]

\* lexerState.lexNumberOrDateOrKey after the call of Accept: a date or a
\* time, dt the text given to time.Parse.
lexDateTime(l, dt) ==
    IF Matches(layouts, dt)
    THEN [Emit(l, TokenDateTime, DateTimeValue(dt)) EXCEPT !.state = "lex"]
    ELSE Error(l, "parsing time: cannot parse")

ToUpperAll(num) == [i \in 1 .. Len(num) |-> ToUpper(num[i])]

lexAccepted(a) ==
    IF a.err # "" THEN Error(a.l, a.err)
    ELSE IF Matches(rnumber, a.s) THEN lexNumber(a.l, a.s)
    ELSE IF Matches(rdatetime, a.s)
    THEN lexDateTime(a.l, ToUpperAll(TrimRight(a.s, {" "})))
    ELSE [Emit(a.l, TokenIdentifier, StrValue(a.s)) EXCEPT !.state = "lex"]

\* lexerState.lexNumberOrDateOrKey
lexNumberOrDateOrKey(l) == lexAccepted(RegexpAccept(l, reNDK))

\* The token of an identifier: a keyword makes a number or a boolean.
Keyword(val) ==
    CASE val = <<"i", "n", "f">> -> <<TokenNumber, InfValue(1)>>
      [] val = <<"n", "a", "n">> -> <<TokenNumber, NaNValue>>
      [] val = <<"t", "r", "u", "e">> -> <<TokenBool, BoolValue(TRUE)>>
      [] val = <<"f", "a", "l", "s", "e">> -> <<TokenBool, BoolValue(FALSE)>>
      [] OTHER -> <<TokenIdentifier, StrValue(val)>>

EmitKeyword(l, v) == [Emit(l, v[1], v[2]) EXCEPT !.state = "lex"]

lexIdentifierRun(a) ==
    IF a.err # "" THEN Error(a.l, a.err)
    ELSE EmitKeyword(a.l, Keyword(a.l.token))

\* lexerState.lexIdentifier
lexIdentifier(l) == lexIdentifierRun(AcceptUntil(l, isIdentifierChar))

UnexpectedIfEOF(err) == IF err = EOF THEN ErrUnexpectedEOF ELSE err

\* parseUnicodeEscape: the hexadecimal digits read, or an error.
RECURSIVE parseUnicodeEscape(_, _, _)
parseUnicodeDigit(rd, length, acc) ==
    IF rd.err # ""
    THEN [l |-> rd.l, s |-> acc, err |-> UnexpectedIfEOF(rd.err)]
    ELSE parseUnicodeEscape(rd.l, length - 1, Append(acc, rd.r))

parseUnicodeEscape(l, length, acc) ==
    IF length = 0 THEN [l |-> l, s |-> acc, err |-> ""]
    ELSE parseUnicodeDigit(AcceptFunc(l, HexDigits), length, acc)

\* The rune of a code point; code points outside the table share one rune.
CodepointRune(n) ==
    CASE n = 97 -> "a" [] n = 98 -> "b" [] n = 49 -> "1" [] n = 50 -> "2"
      [] n = 32 -> " " [] n = 10 -> "\n" [] n = 9 -> "\t"
      [] OTHER -> "<U+>"

MaxRune == 1114111

ValidRune(n) == n >= 0 /\ n <= MaxRune /\ ~(n >= 55296 /\ n <= 57343)

\* The run of delimiters after the first one inside a multiline string.
RECURSIVE DelimRun(_, _, _)
DelimRunRune(rd, delim, ndelim) ==
    IF rd.err # ""
    THEN [l |-> rd.l, n |-> ndelim, err |-> UnexpectedIfEOF(rd.err)]
    ELSE IF rd.r # delim
    THEN [l |-> UnreadRune(rd.l), n |-> ndelim, err |-> ""]
    ELSE DelimRun(rd.l, delim, ndelim + 1)

DelimRun(l, delim, ndelim) ==
    IF ndelim >= 5 THEN [l |-> l, n |-> ndelim, err |-> ""]
    ELSE DelimRunRune(ReadRune(l), delim, ndelim)

Repeat(c, n) == [i \in 1 .. n |-> c]

EscapeRune(next) ==
    CASE next = "b" -> "<BS>" [] next = "f" -> "\f" [] next = "n" -> "\n"
      [] next = "r" -> "\r" [] next = "t" -> "\t"

\* The loop of lexerState.lexString.
RECURSIVE StringLoop(_, _, _, _, _)

\* After the blanks and newlines a backslash makes the lexer skip.
StringSkipped(sk, delim, multiline, val) ==
    IF sk.err # "" THEN Error(sk.l, sk.err)
    ELSE StringLoop(sk.l, delim, multiline, val, FALSE)

\* A backslash and blanks: after the newline that has to follow.
StringTrailingLF(lf, delim, multiline, val) ==
    IF lf.err # "" THEN Error(lf.l, lf.err)
    ELSE StringSkipped(AcceptUntil(lf.l, isSpace \cup isNewline), delim, multiline, val)

\* A backslash and blanks: r2 is the rune read after the blanks.
StringTrailing(r2, delim, multiline, val) ==
    IF r2.err # "" THEN Error(r2.l, r2.err)
    ELSE IF r2.r \notin {"\r", "\n"}
    THEN Error(r2.l, "an unescaped backslash can only have whitespace after it")
    ELSE StringTrailingLF(IF r2.r = "\r" THEN AcceptRune(r2.l, "\n")
                          ELSE [l |-> r2.l, r |-> "", err |-> ""],
                          delim, multiline, val)

\* "\u" and "\U": u holds the digits read, cp is their value.
StringUnicode(u, cp, delim, multiline, val) ==
    IF u.err # "" THEN Error(u.l, u.err)
    ELSE IF cp >= MaxRune \/ ~ValidRune(cp)
    THEN Error(u.l, "invalid unicode escape sequence")
    ELSE StringLoop(u.l, delim, multiline, Append(val, CodepointRune(cp)), FALSE)

StringUnicodeDigits(u, delim, multiline, val) ==
    StringUnicode(u, ParseDigits(u.s, 16, 0), delim, multiline, val)

\* A backslash in a basic string: nx is the rune read after it.
StringEscape(nx, delim, multiline, val) ==
    IF nx.err # "" THEN Error(nx.l, UnexpectedIfEOF(nx.err))
    ELSE IF nx.r \in {"\\", delim}
    THEN StringLoop(nx.l, delim, multiline, Append(val, nx.r), FALSE)
    ELSE IF nx.r \in {" ", "\t"}
    THEN StringTrailing(ReadRune(AcceptUntil(nx.l, isSpace).l), delim, multiline, val)
    ELSE IF nx.r \in {"\r", "\n"}
    THEN StringSkipped(AcceptUntil(nx.l, isSpace \cup isNewline), delim, multiline, val)
    ELSE IF nx.r \in {"b", "f", "n", "r", "t"}
    THEN StringLoop(nx.l, delim, multiline, Append(val, EscapeRune(nx.r)), FALSE)
    ELSE IF nx.r \in {"u", "U"}
    THEN StringUnicodeDigits(parseUnicodeEscape(nx.l, IF nx.r = "U" THEN 8 ELSE 4, <<>>),
                             delim, multiline, val)
    ELSE Error(nx.l, "invalid escape sequence")

\* A delimiter inside a multiline string: d is the run of delimiters.
StringDelims(d, delim, multiline, val) ==
    IF d.err # "" THEN Error(d.l, d.err)
    ELSE IF d.n < 3
    THEN StringLoop(d.l, delim, multiline, val \o Repeat(delim, d.n), FALSE)
    ELSE [Emit(d.l, TokenString, StrValue(val \o Repeat(delim, d.n - 3)))
             EXCEPT !.state = "lex"]

\* A carriage return inside a multiline string: lf is the newline accepted.
StringCRLF(lf, delim, multiline, val, firstnl) ==
    IF lf.err # "" THEN Error(lf.l, lf.err)
    ELSE StringLoop(lf.l, delim, multiline,
                    IF firstnl THEN val ELSE val \o <<"\r", "\n">>, FALSE)

\* One turn of the loop on the rune read.
StringRune(rd, delim, multiline, val, firstnl) ==
    IF rd.err # "" THEN Error(rd.l, UnexpectedIfEOF(rd.err))
    ELSE IF rd.r \in isBadControlChar THEN Error(rd.l, "invalid character")
    ELSE IF rd.r = delim
    THEN (IF multiline THEN StringDelims(DelimRun(rd.l, delim, 1), delim, multiline, val)
          ELSE [Emit(rd.l, TokenString, StrValue(val)) EXCEPT !.state = "lex"])
    ELSE IF rd.r \in {"\n", "\r"}
    THEN (IF ~multiline THEN Error(rd.l, "unexpected newline")
          ELSE IF rd.r = "\r"
          THEN StringCRLF(AcceptRune(rd.l, "\n"), delim, multiline, val, firstnl)
          ELSE StringLoop(rd.l, delim, multiline,
                          IF firstnl THEN val ELSE Append(val, "\n"), FALSE))
    ELSE IF rd.r = "\\"
    THEN (IF delim = "'"
          THEN StringLoop(rd.l, delim, multiline, Append(val, "\\"), FALSE)
          ELSE StringEscape(ReadRune(rd.l), delim, multiline, val))
    ELSE StringLoop(rd.l, delim, multiline, Append(val, rd.r), FALSE)

StringLoop(l, delim, multiline, val, firstnl) ==
    StringRune(ReadRune(l), delim, multiline, val, firstnl)

\* lexerState.lexString after two delimiters: r2 is the rune that follows.
lexStringThird(r2, delim) ==
    IF r2.err # "" /\ r2.err # EOF THEN Error(r2.l, r2.err)
    ELSE IF r2.err = EOF
    THEN [Emit(r2.l, TokenString, StrValue(<<>>)) EXCEPT !.state = "lex"]
    ELSE IF r2.r # delim
    THEN [Emit(UnreadRune(r2.l), TokenString, StrValue(<<>>)) EXCEPT !.state = "lex"]
    ELSE StringLoop(r2.l, delim, TRUE, <<>>, TRUE)

\* lexerState.lexString after the opening delimiter: r1 is the rune that
\* follows.
lexStringSecond(r1, delim) ==
    IF r1.err # "" THEN Error(r1.l, UnexpectedIfEOF(r1.err))
    ELSE IF r1.r # delim THEN StringLoop(UnreadRune(r1.l), delim, FALSE, <<>>, TRUE)
    ELSE lexStringThird(ReadRune(r1.l), delim)

lexStringOpen(a, delim) ==
    IF a.err # "" THEN Error(a.l, a.err)
    ELSE lexStringSecond(ReadRune(a.l), delim)

\* lexerState.lexString
lexString(l, delim) == lexStringOpen(AcceptRune(l, delim), delim)

WithoutRune(rd) == [l |-> rd.l, err |-> rd.err]

acceptNewlineRune(rd) ==
    IF rd.err # "" THEN [l |-> rd.l, err |-> rd.err]
    ELSE IF rd.r = "\n" THEN [l |-> rd.l, err |-> ""]
    ELSE IF rd.r = "\r" THEN WithoutRune(AcceptRune(rd.l, "\n"))
    ELSE [l |-> rd.l, err |-> "expected '\\n' or '\\r'"]

\* lexerState.acceptNewline
acceptNewline(l) == acceptNewlineRune(ReadRune(l))

\* lexerState.lex on a blank: a is the run of blanks.
lexBlanks(a) ==
    IF a.err # "" THEN Error(a.l, a.err)
    ELSE Emit(a.l, TokenWhitespace, NoValue)

\* lexerState.lex on a square bracket r: next is the rune that follows.
lexSquare(next, r, double, single) ==
    IF next.err # "" THEN Error(next.l, next.err)
    ELSE IF next.r = r THEN Emit(next.l, double, NoValue)
    ELSE Emit(UnreadRune(next.l), single, NoValue)

\* lexerState.lex on a carriage return: next is the rune that follows.
lexCR(next) ==
    IF next.err # "" THEN Error(next.l, UnexpectedIfEOF(next.err))
    ELSE IF next.r # "\n"
    THEN Error(next.l, "unexpected character: expected LF after CR")
    ELSE Emit(next.l, TokenNewline, NoValue)

\* lexerState.lex on a comment c: nl is the newline accepted after it.
lexCommentEnd(c, nl) ==
    IF nl.err # "" /\ nl.err # EOF THEN Error(nl.l, nl.err)
    ELSE Emit(IF nl.err # EOF THEN UnreadRune(nl.l) ELSE nl.l,
              TokenComment, StrValue(TrimSpace(c.s)))

lexComment(c) ==
    IF c.err # "" THEN Error(c.l, c.err)
    ELSE lexCommentEnd(c, acceptNewline(c.l))

\* lexerState.lex on the rune read.
lexRune(rd) ==
    IF rd.err # "" THEN Error(rd.l, rd.err)
    ELSE IF rd.r \in {" ", "\t"} THEN lexBlanks(AcceptUntil(rd.l, isSpace))
    ELSE IF rd.r = "{" THEN Emit(rd.l, TokenLBrace, NoValue)
    ELSE IF rd.r = "}" THEN Emit(rd.l, TokenRBrace, NoValue)
    ELSE IF rd.r = "["
    THEN lexSquare(ReadRune(rd.l), "[", TokenDoubleLSquare, TokenLSquare)
    ELSE IF rd.r = "]"
    THEN lexSquare(ReadRune(rd.l), "]", TokenDoubleRSquare, TokenRSquare)
    ELSE IF rd.r = "=" THEN Emit(rd.l, TokenEqual, NoValue)
    ELSE IF rd.r = "." THEN Emit(rd.l, TokenDot, NoValue)
    ELSE IF rd.r = "," THEN Emit(rd.l, TokenComma, NoValue)
    ELSE IF rd.r = "\"" THEN [UnreadRune(rd.l) EXCEPT !.state = "lexString(\")"]
    ELSE IF rd.r = "'" THEN [UnreadRune(rd.l) EXCEPT !.state = "lexString(')"]
    ELSE IF rd.r = "\r" THEN lexCR(ReadRune(rd.l))
    ELSE IF rd.r = "\n" THEN Emit(rd.l, TokenNewline, NoValue)
    ELSE IF rd.r = "#"
    THEN lexComment(AcceptUntil(rd.l, Runes \ (isBadControlChar \cup {"\n"})))
    ELSE IF rd.r \in {"+", "-", "_"} \cup Digits
    THEN [UnreadRune(rd.l) EXCEPT !.state = "lexNumberOrDateOrKey"]
    ELSE IF rd.r \in isIdentifierChar
    THEN [UnreadRune(rd.l) EXCEPT !.state = "lexIdentifier"]
    ELSE Error(rd.l, "unexpected character")

\* lexerState.lex
lex(l) == lexRune(ReadRune(l))

\* One turn of the default branch of Lexer.Next for the TOML lexer: the
\* token channel is empty and the current state function runs.
tomlState(l) ==
    LET l0 == [l EXCEPT !.burst = 0]
    IN  CASE l.state = "lex" -> lex(l0)
          [] l.state = "lexNumberOrDateOrKey" -> lexNumberOrDateOrKey(l0)
          [] l.state = "lexIdentifier" -> lexIdentifier(l0)
          [] l.state = "lexString(\")" -> lexString(l0, "\"")
          [] l.state = "lexString(')" -> lexString(l0, "'")

(***************************************************************************)
(* syntax nodes, and the replay of a node tree (Node.Marshal with the TOML *)
(* marshaler's MarshalNode and MarshalNodePost).  The Child and Sibling    *)
(* links of a node are kept as the sequence of its children.               *)
(***************************************************************************)
NodeDocument == "document"
NodeMap == "map"
NodeList == "list"
NodeKeyPath == "keypath"
NodeString == "string"
NodeNumber == "number"
NodeBool == "bool"
NodeDateTime == "datetime"
NodeNil == "nil"

ZeroNode == [Type |-> "", Value |-> NoValue, Position |-> ZeroCursor,
             Tokens |-> <<>>, Suffix |-> <<>>, Children |-> <<>>]

PathValue(path) == [k |-> "path", path |-> path]

RECURSIVE RawOf(_)
RawOf(toks) == IF toks = <<>> THEN <<>> ELSE Head(toks).raw \o RawOf(Tail(toks))

\* toml marshaler.MarshalNode
MarshalNode(node) == RawOf(node.Tokens)

\* toml marshaler.MarshalNodePost
MarshalNodePost(node) == RawOf(node.Suffix)

\* Node.Marshal over a chain of siblings.
RECURSIVE Marshal(_)
Marshal(nodes) ==
    IF nodes = <<>> THEN <<>>
    ELSE MarshalNode(Head(nodes)) \o Marshal(Head(nodes).Children)
            \o MarshalNodePost(Head(nodes)) \o Marshal(Tail(nodes))

(***************************************************************************)
(* The TOML parser.  A parser value p holds the tokens its lexer sends     *)
(* (p.toks), how many of them it has received (p.i), the token it put     *)
(* back (p.prev, empty or one token) and the raw text of the tokens that   *)
(* Next handed to it and it did not put back (p.got).                      *)
(***************************************************************************)
NoErr == [k |-> "", cursor |-> ZeroCursor, at |-> ZeroCursor, kind |-> ""]
SyntaxErr(token, what) ==
    [k |-> what, cursor |-> token.start, at |-> ZeroCursor, kind |-> ""]
DuplicateKeyError(token, kind, at) ==
    [k |-> "DuplicateKeyError", cursor |-> token.start, at |-> at, kind |-> kind]

\* parser.Error
pError(token, err) ==
    IF token.type = TokenError
    THEN [k |-> token.val.err, cursor |-> token.start, at |-> ZeroCursor, kind |-> ""]
    ELSE err

\* The parser waits for a token the lexer has not sent yet.
Starved == [k |-> "<waiting for the lexer>", cursor |-> ZeroCursor,
            at |-> ZeroCursor, kind |-> ""]

NewParser == [toks |-> <<>>, closed |-> FALSE, i |-> 0, prev |-> <<>>, got |-> <<>>]

\* "p.prev = &next": the second half of a double bracket goes back.
PutBack(p, next) ==
    [p EXCEPT !.prev = <<next>>,
              !.got = SubSeq(p.got, 1, Len(p.got) - Len(next.raw))]

\* parser.Next: the tokens of the allowed types it skipped, the token it
\* stopped at, and the error of an error token.  A receive from the closed
\* channel yields the zero token.
RECURSIVE pNextFrom(_, _, _)
pNextFrom(p, allowed, acc) ==
    LET token == IF p.prev # <<>> THEN p.prev[1]
                 ELSE IF p.i < Len(p.toks) THEN p.toks[p.i + 1]
                 ELSE ZeroToken
        p1 == IF p.prev # <<>>
              THEN [p EXCEPT !.prev = <<>>, !.got = p.got \o token.raw]
              ELSE IF p.i < Len(p.toks)
              THEN [p EXCEPT !.i = p.i + 1, !.got = p.got \o token.raw]
              ELSE p
    IN  IF p.prev = <<>> /\ p.i >= Len(p.toks) /\ ~p.closed
        THEN [p |-> p, toks |-> acc, token |-> ZeroToken, err |-> Starved]
        ELSE IF token.type = TokenError
        THEN [p |-> p1, toks |-> acc, token |-> token, err |-> pError(token, NoErr)]
        ELSE IF token.type \in allowed
        THEN pNextFrom(p1, allowed, Append(acc, token))
        ELSE [p |-> p1, toks |-> acc, token |-> token, err |-> NoErr]

pNext(p, allowed) == pNextFrom(p, allowed, <<>>)

\* A component of a key path: a string or an array index.
KeyStr(s) == [int |-> FALSE, s |-> s, n |-> 0]
KeyIdx(n) == [int |-> TRUE, s |-> <<>>, n |-> n]

NUL == "<NUL>"

Byte(n) ==
    CASE n = 0 -> NUL [] n = 1 -> "<01>" [] n = 2 -> "<02>" [] n = 3 -> "<03>"
      [] n = 4 -> "<04>" [] n = 5 -> "<05>" [] n = 6 -> "<06>" [] OTHER -> "<..>"

\* digest: a string is followed by a zero byte, an index is written as a
\* big-endian int64.
RECURSIVE digest(_)
digest(path) ==
    IF path = <<>> THEN <<>>
    ELSE (IF Head(path).int
          THEN Repeat(NUL, 7) \o <<Byte(Head(path).n)>>
          ELSE Append(Head(path).s, NUL)) \o digest(Tail(path))

ZeroTable == [at |-> ZeroCursor, idx |-> 0, array |-> FALSE, inline |-> FALSE,
              explicit |-> FALSE, kind |-> ""]

EmptyMap == [d \in {} |-> ZeroTable]
Lookup(m, d) == IF d \in DOMAIN m THEN m[d] ELSE ZeroTable
Put(m, d, t) == [x \in DOMAIN m \cup {d} |-> IF x = d THEN t ELSE m[x]]
Merge(m, loc) ==
    [x \in DOMAIN m \cup DOMAIN loc |-> IF x \in DOMAIN loc THEN loc[x] ELSE m[x]]

\* strings.Split(raw, ".")
RECURSIVE Split(_, _)
Split(raw, cur) ==
    IF raw = <<>> THEN <<cur>>
    ELSE IF Head(raw) = "." THEN <<cur>> \o Split(Tail(raw), <<>>)
    ELSE Split(Tail(raw), Append(cur, Head(raw)))

\* The loop of parser.Key: toks are the tokens of the key so far.
RECURSIVE pKeyLoop(_, _, _, _, _)

\* After a dot: n2 is the token that follows it.
pKeyAfterDot(n2, token, toks1, path1, delim) ==
    IF n2.err.k # ""
    THEN [p |-> n2.p, toks |-> toks1, path |-> path1, delim |-> token, err |-> n2.err]
    ELSE pKeyLoop(n2.p, n2.token, toks1 \o n2.toks, path1, delim)

\* After a component of the key: n1 is the token that follows it.
pKeyAfter(n1, token, toks1, path1, delim) ==
    IF n1.err.k # ""
    THEN [p |-> n1.p, toks |-> toks1, path |-> path1, delim |-> token, err |-> n1.err]
    ELSE IF n1.token.type = delim
    THEN [p |-> n1.p, toks |-> toks1, path |-> path1, delim |-> n1.token, err |-> NoErr]
    ELSE IF n1.token.type # TokenDot
    THEN [p |-> n1.p, toks |-> toks1, path |-> path1, delim |-> token,
          err |-> pError(n1.token, SyntaxErr(n1.token, "UnexpectedTokenError"))]
    ELSE pKeyAfterDot(pNext(n1.p, {TokenWhitespace}), token, toks1, path1, delim)

pKeyComponent(n1, token, toks, path1, delim) ==
    pKeyAfter(n1, token, Append(toks, token) \o n1.toks, path1, delim)

\* The components a token adds to the path: the value of an identifier or a
\* string, the raw text of a number or a boolean split at its dots.
KeyComponents(token) ==
    IF token.type \in {TokenIdentifier, TokenString} THEN <<KeyStr(token.val.s)>>
    ELSE [i \in 1 .. Len(Split(token.raw, <<>>)) |-> KeyStr(Split(token.raw, <<>>)[i])]

pKeyLoop(p, token, toks, path, delim) ==
    IF token.type \notin {TokenIdentifier, TokenString, TokenNumber, TokenBool}
    THEN [p |-> p, toks |-> toks, path |-> path, delim |-> token,
          err |-> pError(token, SyntaxErr(token, "UnexpectedTokenError"))]
    ELSE IF ContainsAny(token.raw, {"\r", "\n"})
    THEN [p |-> p, toks |-> toks, path |-> path, delim |-> token,
          err |-> pError(token, SyntaxErr(token, "keys cannot be multiline strings"))]
    ELSE pKeyComponent(pNext(p, {TokenWhitespace}), token, toks,
                       path \o KeyComponents(token), delim)

KeyNode(k, key) ==
    [p |-> k.p, err |-> k.err,
     key |-> [key EXCEPT !.Type = NodeKeyPath,
                         !.Tokens = k.toks,
                         !.Suffix = IF k.err.k = "" THEN Append(key.Suffix, k.delim)
                                    ELSE key.Suffix,
                         !.Value = PathValue(k.path)]]

\* parser.Key: the identifiers and blanks of the key go to key.Tokens, the
\* dots between them to no list, the delimiter that ends it to key.Suffix.
pKey(p, token, key, delim) ==
    KeyNode(pKeyLoop(p, token, key.Tokens, <<>>, delim), key)

RECURSIVE pValue(_, _, _)
RECURSIVE pListLoop(_, _, _, _)
RECURSIVE pObjectLoop(_, _, _, _, _, _)

\* The fixup of parser.List: a "]]" token is split in two "]" tokens, the
\* second one put back.
fixup(n) ==
    IF n.token.type # TokenDoubleRSquare THEN n
    ELSE LET t == [n.token EXCEPT !.type = TokenRSquare, !.raw = <<"]">>]
         IN  [n EXCEPT !.token = [t EXCEPT !.end.col = t.end.col - 1],
                       !.p = PutBack(n.p, [t EXCEPT !.start.col = t.start.col + 1])]

AppendSuffix(node, toks) == [node EXCEPT !.Suffix = node.Suffix \o toks]

\* The closing token goes to the suffix of the last entry, or to the suffix
\* of the collection itself when it has no entry.
CloseWith(node, token) ==
    IF node.Children = <<>> THEN AppendSuffix(node, <<token>>)
    ELSE [node EXCEPT !.Children[Len(node.Children)] =
                          AppendSuffix(node.Children[Len(node.Children)], <<token>>)]

AppendEntry(node, entry) == [node EXCEPT !.Children = Append(node.Children, entry)]

\* parser.List after a comma: n2 is the token that follows it.
pListAfterComma(n2, entry, node, allowed) ==
    IF n2.err.k # "" THEN [p |-> n2.p, node |-> node, err |-> n2.err]
    ELSE pListLoop(n2.p, n2.token,
                   AppendEntry(node, AppendSuffix(entry, n2.toks)), allowed)

\* parser.List after an entry: f1 is the token that follows it.
pListSeparator(f1, entry1, node, allowed) ==
    IF f1.token.type = TokenComma
    THEN pListAfterComma(pNext(f1.p, allowed), AppendSuffix(entry1, <<f1.token>>),
                         node, allowed)
    ELSE IF f1.token.type # TokenRSquare
    THEN [p |-> f1.p, node |-> node,
          err |-> pError(f1.token, SyntaxErr(f1.token, "UnexpectedTokenError"))]
    ELSE pListLoop(f1.p, f1.token, AppendEntry(node, entry1), allowed)

pListAfterEntry(n1, entry, node, allowed) ==
    IF n1.err.k # "" THEN [p |-> n1.p, node |-> node, err |-> n1.err]
    ELSE pListSeparator(fixup(n1), AppendSuffix(entry, n1.toks), node, allowed)

\* parser.List on the value of an entry.
pListEntry(v, token, node, allowed) ==
    IF v.err.k # "" THEN [p |-> v.p, node |-> node, err |-> v.err]
    ELSE pListAfterEntry(pNext(v.p, allowed), [v.node EXCEPT !.Position = token.start],
                         node, allowed)

pListLoop(p, token, node, allowed) ==
    IF token.type = TokenRSquare
    THEN [p |-> p, node |-> CloseWith(node, token), err |-> NoErr]
    ELSE pListEntry(pValue(p, token, ZeroNode), token, node, allowed)

pListFirst(f, node, allowed) == pListLoop(f.p, f.token, node, allowed)

pListOpen(n, node1, allowed) ==
    IF n.err.k # "" THEN [p |-> n.p, node |-> node1, err |-> n.err]
    ELSE pListFirst(fixup(n), node1, allowed)

pListTokens(n, token, node, allowed) ==
    pListOpen(n, [node EXCEPT !.Type = NodeList,
                              !.Tokens = Append(node.Tokens, token) \o n.toks],
              allowed)

\* parser.List
pList(p, token, node) ==
    pListTokens(pNext(p, {TokenWhitespace, TokenNewline, TokenComment}), token, node,
                {TokenWhitespace, TokenNewline, TokenComment})

\* The closing brace goes to the suffix of the last value, or to the suffix
\* of the object itself when it has no key.
CloseObject(node, token) ==
    IF node.Children = <<>> THEN AppendSuffix(node, <<token>>)
    ELSE [node EXCEPT !.Children[Len(node.Children)].Children[1] =
              AppendSuffix(node.Children[Len(node.Children)].Children[1], <<token>>)]

\* parser.Object after a comma: nk is the token that follows it.
pObjectAfterComma(nk, node1, seen1, node, allowed) ==
    IF nk.err.k # "" THEN [p |-> nk.p, node |-> node, err |-> nk.err]
    ELSE IF nk.token.type = TokenRBrace
    THEN [p |-> nk.p, node |-> node,
          err |-> pError(nk.token, SyntaxErr(nk.token, "UnexpectedTokenError"))]
    ELSE pObjectLoop(nk.p, nk.token, node1, [ZeroNode EXCEPT !.Tokens = nk.toks],
                     seen1, allowed)

\* parser.Object after a value: ns is the token that follows it, node1 the
\* object with the key and its value, seen1 the keys with this one.
pObjectSeparator(ns, node1, seen1, node, allowed) ==
    IF ns.token.type = TokenComma
    THEN pObjectAfterComma(pNext(ns.p, allowed), node1, seen1, node, allowed)
    ELSE IF ns.token.type = TokenRBrace
    THEN pObjectLoop(ns.p, ns.token, node1, ZeroNode, seen1, allowed)
    ELSE [p |-> ns.p, node |-> node,
          err |-> pError(ns.token, SyntaxErr(ns.token, "UnexpectedTokenError"))]

pObjectAfterValue(ns, value, key, d, node, seen, allowed) ==
    IF ns.err.k # "" THEN [p |-> ns.p, node |-> node, err |-> ns.err]
    ELSE pObjectSeparator(
             ns,
             AppendEntry(node, [key EXCEPT !.Children = <<AppendSuffix(value, ns.toks)>>]),
             Put(seen, d, [ZeroTable EXCEPT !.at = key.Position]),
             node, allowed)

\* parser.Object on the value of a key; pos is the position of its first
\* token.
pObjectValue(v, pos, key, d, node, seen, allowed) ==
    IF v.err.k # "" THEN [p |-> v.p, node |-> node, err |-> v.err]
    ELSE pObjectAfterValue(pNext(v.p, allowed), [v.node EXCEPT !.Position = pos],
                           key, d, node, seen, allowed)

pObjectAfterKey(nv, key, d, node, seen, allowed) ==
    IF nv.err.k # "" THEN [p |-> nv.p, node |-> node, err |-> nv.err]
    ELSE pObjectValue(pValue(nv.p, nv.token, [ZeroNode EXCEPT !.Tokens = nv.toks]),
                      nv.token.start, key, d, node, seen, allowed)

\* parser.Object on a key, d its digest.
pObjectEntry(p, key, d, token, node, seen, allowed) ==
    IF d \in DOMAIN seen
    THEN [p |-> p, node |-> node,
          err |-> pError(token, DuplicateKeyError(token, "key", seen[d].at))]
    ELSE pObjectAfterKey(pNext(p, allowed), key, d, node, seen, allowed)

pObjectKey(k, token, node, seen, allowed) ==
    IF k.err.k # "" THEN [p |-> k.p, node |-> node, err |-> k.err]
    ELSE pObjectEntry(k.p, [k.key EXCEPT !.Position = token.start],
                      digest(k.key.Value.path), token, node, seen, allowed)

pObjectLoop(p, token, node, key0, seen, allowed) ==
    IF token.type = TokenRBrace
    THEN [p |-> p, node |-> CloseObject(node, token), err |-> NoErr]
    ELSE pObjectKey(pKey(p, token, key0, TokenEqual), token, node, seen, allowed)

pObjectOpen(n, node1, allowed) ==
    IF n.err.k # "" THEN [p |-> n.p, node |-> node1, err |-> n.err]
    ELSE pObjectLoop(n.p, n.token, node1, ZeroNode, EmptyMap, allowed)

pObjectTokens(n, token, node, allowed) ==
    pObjectOpen(n, [node EXCEPT !.Type = NodeMap,
                                !.Tokens = Append(node.Tokens, token) \o n.toks],
                allowed)

\* parser.Object
pObject(p, token, node) ==
    pObjectTokens(pNext(p, {TokenWhitespace, TokenComment}), token, node,
                  {TokenWhitespace, TokenComment})

\* parser.Value
pValue(p, token, node) ==
    LET scalar(typ) == [p |-> p, err |-> NoErr,
                        node |-> [node EXCEPT !.Type = typ, !.Value = token.val,
                                              !.Tokens = Append(node.Tokens, token)]]
        first == [token EXCEPT !.type = TokenLSquare, !.raw = <<"[">>]
    IN  CASE token.type = TokenLBrace -> pObject(p, token, node)
          [] token.type = TokenDoubleLSquare ->
                pList(PutBack(p, [first EXCEPT !.start.col = first.start.col + 1]),
                      [first EXCEPT !.end.col = first.end.col - 1], node)
          [] token.type = TokenLSquare -> pList(p, token, node)
          [] token.type = TokenString -> scalar(NodeString)
          [] token.type = TokenNumber -> scalar(NodeNumber)
          [] token.type = TokenBool -> scalar(NodeBool)
          [] token.type = TokenDateTime -> scalar(NodeDateTime)
          [] token.type = TokenError ->
                [p |-> p, node |-> node, err |-> pError(token, NoErr)]
          [] OTHER ->
                [p |-> p, node |-> node,
                 err |-> pError(token, SyntaxErr(token, "unexpected token"))]

\* The state of parser.Parse between two turns of its loop: the two
\* registries, the current path, the keys linked under the root, and whether
\* new keys go under the table of the last header (prev == &localprev).
NewParse ==
    [pc |-> "parse", p |-> NewParser,
     knownkeys |-> EmptyMap, knownkeyslocal |-> EmptyMap,
     currentPath |-> <<>>, root |-> <<>>, inTable |-> FALSE,
     returned |-> FALSE, err |-> NoErr]

Fail(ps, p, err) ==
    IF err = Starved THEN [ps EXCEPT !.err = Starved]
    ELSE [ps EXCEPT !.pc = "done", !.p = p, !.returned = FALSE, !.err = err]

\* "**prev = key; *prev = &key.Sibling"
Link(ps, key) ==
    IF ps.inTable
    THEN [ps EXCEPT !.root[Len(ps.root)].Children[1].Children =
                        Append(ps.root[Len(ps.root)].Children[1].Children, key)]
    ELSE [ps EXCEPT !.root = Append(ps.root, key)]

\* The keys of the non-final segments of an assignment (Parse, first loop
\* of the TokenEqual case).
RECURSIVE AssignPrefixes(_, _, _, _, _, _)
AssignPrefixes(knownkeys, knownkeyslocal, currentPath, kpath, i, pos) ==
    IF i > Len(kpath) - 1
    THEN [dup |-> FALSE, tbl |-> ZeroTable, knownkeyslocal |-> knownkeyslocal]
    ELSE LET keydigest == digest(currentPath \o SubSeq(kpath, 1, i))
             tbl == Lookup(knownkeys, keydigest)
             loc == [Lookup(knownkeyslocal, keydigest) EXCEPT
                        !.at = pos, !.explicit = TRUE, !.kind = "key"]
         IN  IF tbl.explicit \/ tbl.inline
             THEN [dup |-> TRUE, tbl |-> tbl, knownkeyslocal |-> knownkeyslocal]
             ELSE AssignPrefixes(knownkeys, Put(knownkeyslocal, keydigest, loc),
                                 currentPath, kpath, i + 1, pos)

\* The first loop of the header case without "path = append(path, tbl.idx)":
\* the entries of an array of tables share their paths.
RECURSIVE HeaderPrefixesSharedEntries(_, _, _, _, _)
HeaderPrefixesSharedEntries(knownkeys, kpath, i, path, pos) ==
    IF i > Len(kpath) - 1
    THEN [dup |-> FALSE, tbl |-> ZeroTable, knownkeys |-> knownkeys, path |-> path]
    ELSE LET path1 == Append(path, kpath[i])
             keydigest == digest(path1)
             ok == keydigest \in DOMAIN knownkeys
             tbl == IF ok THEN knownkeys[keydigest]
                    ELSE [ZeroTable EXCEPT !.at = pos, !.kind = "table"]
             known1 == IF ok THEN knownkeys ELSE Put(knownkeys, keydigest, tbl)
         IN  IF ok /\ tbl.inline
             THEN [dup |-> TRUE, tbl |-> tbl, knownkeys |-> known1, path |-> path1]
             ELSE HeaderPrefixesSharedEntries(known1, kpath, i + 1, path1, pos)

\* The tables of the non-final segments of a header (Parse, first loop of
\* the TokenRSquare, TokenDoubleRSquare case).
RECURSIVE HeaderPrefixes(_, _, _, _, _)
HeaderPrefixes(knownkeys, kpath, i, path, pos) ==
    IF i > Len(kpath) - 1
    THEN [dup |-> FALSE, tbl |-> ZeroTable, knownkeys |-> knownkeys, path |-> path]
    ELSE LET path1 == Append(path, kpath[i])
             keydigest == digest(path1)
             ok == keydigest \in DOMAIN knownkeys
             tbl == IF ok THEN knownkeys[keydigest]
                    ELSE [ZeroTable EXCEPT !.at = pos, !.kind = "table"]
             known1 == IF ok THEN knownkeys ELSE Put(knownkeys, keydigest, tbl)
         IN  IF ok /\ tbl.inline
             THEN [dup |-> TRUE, tbl |-> tbl, knownkeys |-> known1, path |-> path1]
             ELSE HeaderPrefixes(known1, kpath, i + 1,
                                 IF tbl.array THEN Append(path1, KeyIdx(tbl.idx))
                                 ELSE path1, pos)

\* A header key is linked under the root and opens its table.
LinkKey(ps, key, header) ==
    IF header THEN [ps EXCEPT !.root = Append(ps.root, key), !.inTable = TRUE]
    ELSE Link(ps, key)

\* The end of a turn of the loop of Parse on the token n.token: blanks and
\* comments go to the suffix of the value (of the key, for a header), the
\* newline to the suffix of the key.
EndOfLineToken(ps, n, key1, header) ==
    IF n.err.k # "" THEN Fail(ps, n.p, n.err)
    ELSE IF n.token.type = TokenEOF
    THEN [LinkKey(ps, key1, header) EXCEPT !.pc = "done", !.p = n.p,
                                           !.returned = TRUE]
    ELSE IF n.token.type # TokenNewline
    THEN Fail(ps, n.p, pError(n.token, SyntaxErr(n.token, "UnexpectedTokenError")))
    ELSE [LinkKey(ps, AppendSuffix(key1, <<n.token>>), header) EXCEPT !.p = n.p]

EndOfLineSuffix(ps, n, key, header) ==
    EndOfLineToken(ps, n,
                   IF header THEN AppendSuffix(key, n.toks)
                   ELSE [key EXCEPT !.Children[1] = AppendSuffix(key.Children[1], n.toks)],
                   header)

EndOfLine(ps, p, key, header) ==
    EndOfLineSuffix(ps, pNext(p, {TokenWhitespace, TokenComment}), key, header)

\* "<key> = <value>" on the value; local1 is knownkeyslocal with the key.
AssignValue(ps, local1, key, v) ==
    IF v.err.k # "" THEN Fail(ps, v.p, v.err)
    ELSE EndOfLine([ps EXCEPT !.knownkeyslocal = local1], v.p,
                   [key EXCEPT !.Value = PathValue(key.Value.path),
                               !.Children = <<v.node>>],
                   FALSE)

AssignAfterEqual(ps, local1, key, nv) ==
    IF nv.err.k # "" THEN Fail(ps, nv.p, nv.err)
    ELSE AssignValue(ps, local1, key,
                     pValue(nv.p, nv.token, [ZeroNode EXCEPT !.Tokens = nv.toks]))

\* "<key> = <value>" on the entries of the key in the two registries.
AssignKey(ps, p, token, key, locals, keydigest, tbl, loc) ==
    IF tbl.explicit
    THEN Fail(ps, p, pError(token, DuplicateKeyError(token, tbl.kind, tbl.at)))
    ELSE IF loc.explicit
    THEN Fail(ps, p, pError(token, DuplicateKeyError(token, loc.kind, loc.at)))
    ELSE AssignAfterEqual(ps,
                          Put(locals, keydigest,
                              [loc EXCEPT !.at = key.Position, !.explicit = TRUE,
                                          !.inline = TRUE, !.kind = "key"]),
                          key, pNext(p, {TokenWhitespace}))

AssignChecked(ps, p, token, key, pre, keydigest) ==
    IF pre.dup
    THEN Fail(ps, p, pError(token, DuplicateKeyError(token, pre.tbl.kind, pre.tbl.at)))
    ELSE AssignKey(ps, p, token, key, pre.knownkeyslocal, keydigest,
                   Lookup(ps.knownkeys, keydigest),
                   Lookup(pre.knownkeyslocal, keydigest))

\* "<key> = <value>"
Assign(ps, p, token, key) ==
    AssignChecked(ps, p, token, key,
                  AssignPrefixes(ps.knownkeys, ps.knownkeyslocal, ps.currentPath,
                                 key.Value.path, 1, key.Position),
                  digest(ps.currentPath \o key.Value.path))

\* "[<key>]" checked against the flag of inline definitions only.
TableDefinedInline(tbl) == tbl.inline

\* "[<key>]": the table of the path was opened by a header or assigned.
TableDefined(tbl) == tbl.explicit

\* "[[<key>]]" without "tbl.idx++": every header names the first entry.
NextEntrySameIndex(tbl) ==
    IF ~tbl.explicit THEN [tbl EXCEPT !.array = TRUE, !.kind = "array"]
    ELSE tbl

\* "[[<key>]]": the first header makes the table an array, each later one
\* moves to its next entry.
NextEntry(tbl) ==
    IF ~tbl.explicit THEN [tbl EXCEPT !.array = TRUE, !.kind = "array"]
    ELSE [tbl EXCEPT !.idx = tbl.idx + 1]

\* "[<key>]" or "[[<key>]]" on the entry tbl of the table, tbl1 the entry
\* the header leaves and path the fully-qualified path of the table.
HeaderOpen(ps, p, key, known, keydigest, tbl1, path) ==
    EndOfLine([ps EXCEPT !.knownkeys =
                             Put(known, keydigest,
                                 [tbl1 EXCEPT !.at = key.Position, !.explicit = TRUE]),
                         !.knownkeyslocal = EmptyMap,
                         !.currentPath = path],
              p,
              [key EXCEPT !.Value = PathValue(path),
                          !.Children = <<[ZeroNode EXCEPT !.Type = NodeMap]>>],
              TRUE)

HeaderEntry(ps, p, key, delim, known, path0, keydigest, tbl1) ==
    HeaderOpen(ps, p, key, known, keydigest, tbl1,
               IF delim = TokenRSquare THEN path0 ELSE Append(path0, KeyIdx(tbl1.idx)))

HeaderTable(ps, p, token, key, delim, known, path0, keydigest, tbl) ==
    IF delim = TokenRSquare /\ TableDefined(tbl)
    THEN Fail(ps, p, pError(token, DuplicateKeyError(token, tbl.kind, tbl.at)))
    ELSE IF delim = TokenDoubleRSquare /\ keydigest \in DOMAIN known /\ ~tbl.array
    THEN Fail(ps, p, pError(token, DuplicateKeyError(token, tbl.kind, tbl.at)))
    ELSE HeaderEntry(ps, p, key, delim, known, path0, keydigest,
                     IF delim = TokenRSquare THEN [tbl EXCEPT !.kind = "table"]
                     ELSE NextEntry(tbl))

HeaderDigest(ps, p, token, key, delim, known, path0, keydigest) ==
    HeaderTable(ps, p, token, key, delim, known, path0, keydigest,
                Lookup(known, keydigest))

HeaderPath(ps, p, token, key, delim, known, path0) ==
    HeaderDigest(ps, p, token, key, delim, known, path0, digest(path0))

HeaderChecked(ps, p, token, key, delim, pre) ==
    IF pre.dup
    THEN Fail(ps, p, pError(token, DuplicateKeyError(token, pre.tbl.kind, pre.tbl.at)))
    ELSE HeaderPath(ps, p, token, key, delim, pre.knownkeys,
                    Append(pre.path, key.Value.path[Len(key.Value.path)]))

\* "[<key>]" or "[[<key>]]"
Header(ps, p, token, key, delim) ==
    HeaderChecked(ps, p, token, key, delim,
                  HeaderPrefixes(Merge(ps.knownkeys, ps.knownkeyslocal),
                                 key.Value.path, 1, <<>>, key.Position))

\* parser.Parse on the key of a line.
ParseKey(ps, k, token, delim, header) ==
    IF k.err.k # "" THEN Fail(ps, k.p, k.err)
    ELSE IF header
    THEN Header(ps, k.p, token, [k.key EXCEPT !.Position = token.start], delim)
    ELSE Assign(ps, k.p, token, [k.key EXCEPT !.Position = token.start])

\* parser.Parse on a header: n0 is its opening bracket, n1 the token that
\* follows it.
ParseHeader(ps, n0, n1, delim) ==
    IF n1.err.k # "" THEN Fail(ps, n1.p, n1.err)
    ELSE ParseKey(ps,
                  pKey(n1.p, n1.token,
                       [ZeroNode EXCEPT !.Tokens = Append(n0.toks, n0.token) \o n1.toks],
                       delim),
                  n1.token, delim, TRUE)

\* parser.Parse on the first token n0 of a line.
ParseLine(ps, n0) ==
    IF n0.err.k # "" THEN Fail(ps, n0.p, n0.err)
    ELSE IF n0.token.type \in {TokenLSquare, TokenDoubleLSquare}
    THEN ParseHeader(ps, n0, pNext(n0.p, {TokenWhitespace}),
                     IF n0.token.type = TokenDoubleLSquare THEN TokenDoubleRSquare
                     ELSE TokenRSquare)
    ELSE IF n0.token.type = TokenEOF
    THEN [ps EXCEPT !.pc = "done", !.p = n0.p, !.returned = TRUE]
    ELSE ParseKey(ps,
                  pKey(n0.p, n0.token, [ZeroNode EXCEPT !.Tokens = n0.toks], TokenEqual),
                  n0.token, TokenEqual, FALSE)

\* One turn of the loop of parser.Parse.
ParseTurn(ps) ==
    ParseLine(ps, pNext(ps.p, {TokenWhitespace, TokenNewline, TokenComment}))

(***************************************************************************)
(* reflectutil: binding a tree to a destination of type interface{}.  The  *)
(* destination holds nothing (NilValue), a scalar, a                       *)
(* map[interface{}]interface{} (a function of key path components) or a    *)
(* []interface{} (a sequence).                                             *)
(***************************************************************************)
NilValue == [k |-> "nil"]
MapValue(m) == [k |-> "map", m |-> m]
ListValue(l) == [k |-> "list", l |-> l]
NoValues == [x \in {} |-> NilValue]

Done(v) == [v |-> v, err |-> ""]
Failed(v, err) == [v |-> v, err |-> err]

\* ToScalar: the integers of the documents of the model fit an int64, so
\* that ConstantToInt returns at its first test; the other values are kept.
ToScalar(value) ==
    IF value.k = "int" THEN [k |-> "int64", n |-> value.n] ELSE value

RECURSIVE unmarshal(_, _, _)
RECURSIVE unmarshalInto(_, _, _)
RECURSIVE unmarshalKeys(_, _, _, _)
RECURSIVE unmarshalElems(_, _, _, _)
RECURSIVE Set(_, _, _)

\* unmarshal, the closure toValue: a map or a list node makes a new
\* container, which unmarshal fills.
toValue(node, merge) ==
    CASE node.Type \in {NodeBool, NodeString, NodeNil} ->
            IF node.Value.k = "bool" THEN Done(node.Value)
            ELSE Failed(NilValue, "panic: interface conversion")
      [] node.Type \in {NodeNumber, NodeDateTime} -> Done(node.Value)
      [] node.Type = NodeMap -> unmarshalInto(MapValue(NoValues), node, merge)
      [] node.Type = NodeList -> unmarshalInto(ListValue(<<>>), node, merge)
      [] OTHER -> Failed(NilValue, "unsupported node type")

\* unmarshal into an interface{}: SetScalar stores the value of a scalar
\* node; with merge, a destination that holds a value is filled in place.
unmarshal(val, node, merge) ==
    IF node.Value # NoValue THEN Done(ToScalar(node.Value))
    ELSE IF node.Type = NodeNil THEN Done(NilValue)
    ELSE IF merge /\ val # NilValue THEN unmarshalInto(val, node, merge)
    ELSE toValue(node, merge)

\* unmarshal into the value an interface{} holds (which is not addressable)
\* or into a new container.
unmarshalInto(val, node, merge) ==
    CASE val.k = "map" ->
            IF node.Type = NodeNil
            THEN Failed(val, "panic: reflect.Value.Set using unaddressable value")
            ELSE IF node.Type # NodeMap
            THEN Failed(val, "config has a node of another type, but expected map instead")
            ELSE unmarshalKeys(IF merge THEN val ELSE MapValue(NoValues),
                               node.Children, 1, merge)
      [] val.k = "list" ->
            IF node.Type = NodeNil
            THEN Failed(val, "panic: reflect.Value.Set using unaddressable value")
            ELSE IF node.Type # NodeList
            THEN Failed(val, "config has a node of another type, but expected list instead")
            ELSE IF val.l # <<>> /\ Len(val.l) # Len(node.Children)
            THEN Failed(val, "panic: reflect.Value.Set using unaddressable value")
            ELSE unmarshalElems(IF Len(val.l) = Len(node.Children) THEN val.l
                                ELSE [i \in 1 .. Len(node.Children) |-> NilValue],
                                node.Children, 1, merge)
      [] OTHER ->
            Failed(val, "config has a node of another type than the destination")

unmarshalNextKey(r, keys, i, merge) ==
    IF r.err # "" THEN r ELSE unmarshalKeys(r.v, keys, i + 1, merge)

\* The reflect.Map case on a key that is not a key path (a member of a
\* JSON5 object), r the result of unmarshal on a copy of the element at the
\* key: the copy is stored only when the map did not hold the key; for a
\* key it held, what was bound is in the map only when the copy was merged
\* into, in the container it shares with the element.
unmarshalMemberValue(val, k, value, merge, r) ==
    IF r.err # "" THEN Failed(val, r.err)
    ELSE IF \/ k \notin DOMAIN val.m
            \/ /\ merge /\ val.m[k] # NilValue
               /\ value.Value = NoValue /\ value.Type # NodeNil
    THEN Done(MapValue([x \in DOMAIN val.m \cup {k} |->
                           IF x = k THEN r.v ELSE val.m[x]]))
    ELSE Done(val)

unmarshalMember(val, k, value, merge) ==
    unmarshalMemberValue(val, k, value, merge,
                         unmarshal(IF k \in DOMAIN val.m THEN val.m[k] ELSE NilValue,
                                   value, merge))

\* The loop of the reflect.Map case: a key of a TOML tree is a key path, a
\* key of a JSON5 tree a string.
unmarshalKeys(val, keys, i, merge) ==
    IF i > Len(keys) THEN Done(val)
    ELSE IF keys[i].Type = NodeKeyPath
    THEN unmarshalNextKey(Set(val, keys[i].Children[1], keys[i].Value.path),
                          keys, i, merge)
    ELSE unmarshalNextKey(unmarshalMember(val, KeyStr(keys[i].Value.s),
                                          keys[i].Children[1], merge),
                          keys, i, merge)

unmarshalNextElem(r, l, nodes, i, merge) ==
    IF r.err # "" THEN Failed(ListValue(l), r.err)
    ELSE unmarshalElems([l EXCEPT ![i] = r.v], nodes, i + 1, merge)

\* The loop of the reflect.Slice case.
unmarshalElems(l, nodes, i, merge) ==
    IF i > Len(nodes) THEN Done(ListValue(l))
    ELSE unmarshalNextElem(unmarshal(l[i], nodes[i], merge), l, nodes, i, merge)

\* Set on a map: r is the element at the key after the recursive call.
SetMapIndex(rval, elem, r) ==
    IF r.err # "" THEN Failed(rval, r.err)
    ELSE Done(MapValue([x \in DOMAIN rval.m \cup {elem} |->
                           IF x = elem THEN r.v ELSE rval.m[x]]))

\* Set on a list l: r is the element at the index after the recursive call.
SetIndex(val, l, idx, r) ==
    IF r.err # "" THEN Failed(val, r.err)
    ELSE Done(ListValue([l EXCEPT ![idx + 1] = r.v]))

\* Set on a list grown to hold the index.
SetInList(val, l, idx, node, at) ==
    SetIndex(val, l, idx, Set(l[idx + 1], node, Tail(at)))

\* Set on the container rval: the destination, or the new container an
\* interface{} that holds nothing gets.
SetIn(val, rval, elem, node, at) ==
    CASE rval.k = "map" ->
            SetMapIndex(rval, elem,
                        Set(IF elem \in DOMAIN rval.m THEN rval.m[elem] ELSE NilValue,
                            node, Tail(at)))
      [] rval.k = "list" ->
            IF ~elem.int
            THEN Failed(val, "cannot index slice or array with a string")
            ELSE SetInList(val,
                           IF Len(rval.l) <= elem.n
                           THEN [i \in 1 .. elem.n + 1 |->
                                    IF i <= Len(rval.l) THEN rval.l[i] ELSE NilValue]
                           ELSE rval.l,
                           elem.n, node, at)
      [] OTHER -> Failed(val, "cannot index a scalar with a key")

\* Set(val, node, at...): an interface{} that holds nothing gets a list
\* when the component is an index and a map otherwise; a list grows to
\* hold the index.
Set(val, node, at) ==
    IF at = <<>> THEN unmarshal(val, node, TRUE)
    ELSE SetIn(val,
               IF val # NilValue THEN val
               ELSE IF Head(at).int THEN ListValue(<<>>)
               ELSE MapValue(NoValues),
               Head(at), node, at)

\* UnmarshalerBase.Decode into a pointer to an interface{}: the error of the
\* parser, or the tree bound to the destination.
Decode(ps) ==
    IF ~ps.returned THEN Failed(NilValue, ps.err.k)
    ELSE unmarshal(NilValue, [ZeroNode EXCEPT !.Type = NodeMap, !.Children = ps.root],
                   FALSE)

(***************************************************************************)
(* The environment overlay: naming conventions, UnmarshalText and          *)
(* PopulateFromEnv.  A destination is a string, an int, a map with string  *)
(* elements or a struct; the lookup function is a function from the names  *)
(* of the variables of the model to their values, Unset for a variable     *)
(* that is not defined.                                                    *)
(***************************************************************************)
Alphabet == <<"a", "b", "c", "d", "e", "f", "g", "h", "i", "j", "k", "l", "m",
              "n", "o", "p", "q", "r", "s", "t", "u", "v", "w", "x", "y", "z">>
Capitals == <<"A", "B", "C", "D", "E", "F", "G", "H", "I", "J", "K", "L", "M",
              "N", "O", "P", "Q", "R", "S", "T", "U", "V", "W", "X", "Y", "Z">>

\* unicode.ToUpper
UnicodeToUpper(r) ==
    IF r \in Lower THEN Capitals[CHOOSE i \in 1 .. Len(Alphabet) : Alphabet[i] = r]
    ELSE r

\* unicode.ToLower
UnicodeToLower(r) ==
    IF r \in Upper THEN Alphabet[CHOOSE i \in 1 .. Len(Capitals) : Capitals[i] = r]
    ELSE r

\* baseConvention.Format of constantCase(_, '_', screaming), from rune i on.
RECURSIVE FormatFrom(_, _, _)
FormatFrom(s, i, screaming) ==
    IF i > Len(s) THEN <<>>
    ELSE LET r == s[i]
             prev == IF i = 1 THEN "" ELSE s[i - 1]
             next == IF i < Len(s) THEN s[i + 1] ELSE r
             boundary == \/ i = 1
                         \/ (r \in Digits) # (prev \in Digits)
                         \/ prev \in Lower /\ r \in Upper
                         \/ r \in Upper /\ next \in Lower
         IN  (IF boundary /\ i # 1 THEN <<"_">> ELSE <<>>)
                \o <<IF screaming THEN UnicodeToUpper(r) ELSE UnicodeToLower(r)>>
                \o FormatFrom(s, i + 1, screaming)

\* encoding.ScreamingSnakeCase.Format
ScreamingSnakeCase(s) == FormatFrom(s, 1, TRUE)

\* encoding.SnakeCase.Format
SnakeCase(s) == FormatFrom(s, 1, FALSE)

\* strings.Map(toEnv, key)
asEnv(key) ==
    [i \in 1 .. Len(key) |->
        IF key[i] \in Lower \cup Upper \cup Digits THEN UnicodeToUpper(key[i]) ELSE "_"]

StringOf(s) == [k |-> "string", s |-> s]
IntOf(n) == [k |-> "int", n |-> n]
Int64Of(n) == [k |-> "int64", n |-> n]
BoolOf(b) == [k |-> "bool", b |-> b]
\* A slice, with the kind of its element type.
ListOf(of, elems) == [k |-> "list", of |-> of, elems |-> elems]
MapOf(keys, elems) == [k |-> "map", keys |-> keys, elems |-> elems]
StructOf(fields) == [k |-> "struct", fields |-> fields]
Field(name, envkey, value) == [Name |-> name, Env |-> envkey, Value |-> value]

\* strconv.ParseInt(value, 0, 64) on the values of the model: a run of
\* decimal digits is a number, anything else a syntax error.
ParseInt(value) ==
    IF value # <<>> /\ \A i \in 1 .. Len(value) : value[i] \in Digits
    THEN [n |-> ParseDigits(value, 10, 0), err |-> ""]
    ELSE [n |-> 0, err |-> "strconv.ParseInt: invalid syntax"]

\* UnmarshalText
UnmarshalText(to, value) ==
    CASE to.k = "int" ->
            [ok |-> TRUE, err |-> ParseInt(value).err,
             to |-> IF ParseInt(value).err = "" THEN IntOf(ParseInt(value).n) ELSE to]
      [] to.k = "string" -> [ok |-> TRUE, err |-> "", to |-> StringOf(value)]
      [] OTHER -> [ok |-> FALSE, err |-> "", to |-> to]

Unset == [defined |-> FALSE, value |-> <<>>]
IsSet(v) == [defined |-> TRUE, value |-> v]

\* The lookup function with every variable defined, the ones the
\* environment does not hold as empty strings.
LookupOrEmpty(lookup, name) ==
    IF name \in DOMAIN lookup /\ lookup[name].defined THEN lookup[name] ELSE IsSet(<<>>)

\* unmarshaler.LookupEnv
LookupEnv(lookup, name) ==
    IF name \in DOMAIN lookup THEN lookup[name] ELSE Unset

\* "for i := 0; i < len(names) && !defined; i++"
RECURSIVE LookupFirst(_, _)
LookupFirst(lookup, names) ==
    IF names = <<>> THEN Unset
    ELSE IF LookupEnv(lookup, Head(names)).defined THEN LookupEnv(lookup, Head(names))
    ELSE LookupFirst(lookup, Tail(names))

RECURSIVE Uniq(_)
Uniq(s) ==
    IF s = <<>> THEN <<>>
    ELSE LET u == Uniq(Front(s))
         IN  IF \E i \in 1 .. Len(u) : u[i] = Last(s) THEN u ELSE Append(u, Last(s))

Reverse(s) == [i \in 1 .. Len(s) |-> s[Len(s) + 1 - i]]

\* The keys of the map uniq, in one of the orders a range over it takes.
Tentatives(candidates, rev) ==
    IF rev THEN Reverse(Uniq(candidates)) ELSE Uniq(candidates)

PathListSeparator == ":"

\* strings.Split(value, string(os.PathListSeparator))
RECURSIVE SplitList(_, _)
SplitList(value, cur) ==
    IF value = <<>> THEN <<cur>>
    ELSE IF Head(value) = PathListSeparator THEN <<cur>> \o SplitList(Tail(value), <<>>)
    ELSE SplitList(Tail(value), Append(cur, Head(value)))

PanicIndex == "panic: runtime error: index out of range"

\* The loop of the reflect.Slice case over a slice of strings, from element
\* i on: list[i] panics when the list is shorter than the slice.
RECURSIVE PopulateElems(_, _, _, _)
PopulateElem(u, to, list, length, i) ==
    IF ~u.ok THEN [to |-> to, ok |-> FALSE, err |-> "cannot set element on list"]
    ELSE IF u.err # "" THEN [to |-> to, ok |-> FALSE, err |-> u.err]
    ELSE PopulateElems([to EXCEPT !.elems[i] = u.to], list, length, i + 1)

PopulateElems(to, list, length, i) ==
    IF i > length THEN [to |-> to, ok |-> FALSE, err |-> ""]
    ELSE IF i > Len(list) THEN [to |-> to, ok |-> FALSE, err |-> PanicIndex]
    ELSE PopulateElem(UnmarshalText(to.elems[i], list[i]), to, list, length, i)

\* reflect.MakeSlice of strings
MakeSlice(length) == ListOf("string", [i \in 1 .. length |-> StringOf(<<>>)])

\* The reflect.Slice case of PopulateFromEnv on the list the value splits
\* into.
PopulateList(to, list) ==
    IF Len(list) > Len(to.elems)
    THEN PopulateElems(MakeSlice(Len(list)), list, Len(list), 1)
    ELSE PopulateElems(to, list, Len(to.elems), 1)

RECURSIVE PopulateFromEnv(_, _, _, _, _)
RECURSIVE PopulateKeys(_, _, _, _, _, _)
RECURSIVE PopulateFields(_, _, _, _, _, _, _)

\* PopulateFromEnv after the lookups: found is the first variable defined,
\* u the value UnmarshalText makes of it.
PopulateFound(to, automatic, names, lookup, rev, found, u) ==
    IF automatic /\ found.defined /\ u.ok
    THEN [to |-> u.to, ok |-> TRUE, err |-> u.err]
    ELSE CASE to.k = "list" ->
                IF ~found.defined THEN [to |-> to, ok |-> FALSE, err |-> ""]
                ELSE PopulateList(to, SplitList(found.value, <<>>))
           [] to.k = "map" -> PopulateKeys(to, 1, automatic, names, lookup, rev)
           [] to.k = "struct" ->
                PopulateFields(to, 1, FALSE, automatic, names, lookup, rev)
           [] OTHER -> [to |-> to, ok |-> FALSE, err |-> ""]

PopulateLookedUp(to, automatic, names, lookup, rev, found) ==
    PopulateFound(to, automatic, names, lookup, rev, found,
                  UnmarshalText(to, found.value))

\* PopulateFromEnv: the destination after the call, whether it changed, and
\* the error.
PopulateFromEnv(to, automatic, names, lookup, rev) ==
    IF names = <<>> THEN [to |-> to, ok |-> TRUE, err |-> ""]
    ELSE PopulateLookedUp(to, automatic, names, lookup, rev, LookupFirst(lookup, names))

\* The candidate names of the element at a key of a map.
KeyCandidates(names, text) ==
    Flatten([n \in 1 .. Len(names) |->
                <<names[n] \o <<"_">> \o ScreamingSnakeCase(text),
                  names[n] \o <<"_">> \o asEnv(text)>>])

\* The reflect.Map case after the call on the element at key i.
PopulateKey(r, to, i, automatic, names, lookup, rev) ==
    IF r.err # "" THEN [to |-> to, ok |-> r.ok, err |-> r.err]
    ELSE PopulateKeys(IF r.ok THEN [to EXCEPT !.elems[i] = r.to] ELSE to,
                      i + 1, automatic, names, lookup, rev)

\* The loop of the reflect.Map case, from key i on.
PopulateKeys(to, i, automatic, names, lookup, rev) ==
    IF i > Len(to.keys) THEN [to |-> to, ok |-> FALSE, err |-> ""]
    ELSE IF to.keys[i].err # "" THEN [to |-> to, ok |-> FALSE, err |-> to.keys[i].err]
    ELSE PopulateKey(PopulateFromEnv(to.elems[i], automatic,
                                     Tentatives(KeyCandidates(names, to.keys[i].text), rev),
                                     lookup, rev),
                     to, i, automatic, names, lookup, rev)

\* The candidate names of a field without an explicit key.
FieldCandidates(names, key) == [n \in 1 .. Len(names) |-> names[n] \o <<"_">> \o key]

\* The reflect.Struct case after the call on field i; to1 is the struct with
\* the field the call returned.
PopulateField(r, to1, i, changed, automatic, names, lookup, rev) ==
    IF r.err # "" THEN [to |-> to1, ok |-> changed \/ r.ok, err |-> r.err]
    ELSE PopulateFields(to1, i + 1, changed \/ r.ok, automatic, names, lookup, rev)

PopulateFieldValue(r, to, i, changed, automatic, names, lookup, rev) ==
    PopulateField(r, [to EXCEPT !.fields[i].Value = r.to], i, changed, automatic,
                  names, lookup, rev)

\* The loop of the reflect.Struct case, from field i on.
PopulateFields(to, i, changed, automatic, names, lookup, rev) ==
    IF i > Len(to.fields) THEN [to |-> to, ok |-> changed, err |-> ""]
    ELSE PopulateFieldValue(
             IF to.fields[i].Env # <<>>
             THEN PopulateFromEnv(to.fields[i].Value, TRUE, <<to.fields[i].Env>>,
                                  lookup, rev)
             ELSE PopulateFromEnv(to.fields[i].Value, automatic,
                                  Tentatives(FieldCandidates(
                                                 names,
                                                 ScreamingSnakeCase(to.fields[i].Name)),
                                             rev),
                                  lookup, rev),
             to, i, changed, automatic, names, lookup, rev)

(***************************************************************************)
(* The encoder of values (reflectutil.Marshal) with the TOML marshaler.    *)
(* A marshaler is the text written so far, the state of the TOML           *)
(* marshaler, and the error or panic that ended the encoding.              *)
(***************************************************************************)
KindsOfMaps == {"map", "struct"}
PanicLen == "panic: reflect: call of reflect.Value.Len on struct Value"

\* toml.NewEncoder
NewEncoder ==
    [out |-> <<>>, first |-> TRUE, curdepth |-> -1, listdepth |-> 0, valdepth |-> 0,
     inline |-> FALSE, path |-> <<>>, listofmap |-> <<>>, err |-> ""]

MapEntry(key, value) == [Key |-> key, Value |-> value]

WriteString(m, s) == [m EXCEPT !.out = @ \o s]
WriteNewline(m) == WriteString(m, <<"\n">>)
\* MarshalerBase.WriteIndent, Indent being two spaces.
WriteIndent(m, level) == WriteString(m, Repeat(" ", 2 * level))

\* MarshalerBase.WriteQuoted on the runes of the model, all printable but
\* the ones it escapes.
RECURSIVE QuotedRunes(_, _)
QuotedRunes(in, delim) ==
    IF in = <<>> THEN <<>>
    ELSE LET r == Head(in)
             e == CASE r = "\n" -> <<"\\", "n">>
                    [] r = "\r" -> <<"\\", "r">>
                    [] r = "\t" -> <<"\\", "t">>
                    [] r \in {delim, "\\"} -> <<"\\", r>>
                    [] OTHER -> <<r>>
         IN  e \o QuotedRunes(Tail(in), delim)

WriteQuoted(m, in, delim) == WriteString(m, <<delim>> \o QuotedRunes(in, delim) \o <<delim>>)

\* marshaler.depth
depth(m, offset) == IF m.curdepth + offset < 0 THEN 0 ELSE m.curdepth + offset

writeKey(m, s) ==
    IF s # <<>> /\ \A i \in 1 .. Len(s) : s[i] \in isIdentifierChar
    THEN WriteString(m, s)
    ELSE WriteQuoted(m, s, "\"")

RECURSIVE writeKeyPath(_, _)
writeKeyPath(m, s) ==
    IF s = <<>> THEN m
    ELSE IF Len(s) = 1 THEN writeKey(m, s[1])
    ELSE writeKeyPath(WriteString(writeKey(m, s[1]), <<".">>), Tail(s))

\* isValueType of the TOML marshaler: none of the types of the model is a
\* value type of reflectutil.IsValueType.
RECURSIVE isValueType(_)
isValueType(v) ==
    CASE v.k = "list" ->
            IF v.of \in KindsOfMaps THEN FALSE
            ELSE IF \E i \in 1 .. Len(v.elems) :
                        isValueType(v.elems[i]) \/ v.elems[i].k = "list"
            THEN TRUE
            ELSE Len(v.elems) = 0
      [] v.k \in KindsOfMaps -> FALSE
      [] OTHER -> TRUE

MarshalValue(m, v) ==
    IF m.valdepth = 0 /\ isValueType(v)
    THEN [m EXCEPT !.err = "cannot marshal single value: document must contain tables"]
    ELSE m

MarshalBool(m, b) ==
    WriteString(m, IF b THEN <<"t", "r", "u", "e">> ELSE <<"f", "a", "l", "s", "e">>)

MarshalString(m, str) == WriteQuoted(m, str, "\"")

\* fmt's %d
RECURSIVE FormatDigits(_)
FormatDigits(n) ==
    IF n < 10 THEN <<CHOOSE d \in Digits : DigitVal(d) = n>>
    ELSE Append(FormatDigits(n \div 10), CHOOSE d \in Digits : DigitVal(d) = n % 10)

\* A finite float64, as strconv reads it for the shortest formatting: its
\* sign, the decimal digits d1 d2 .. dn without leading and trailing zeros,
\* and the position dp of the decimal point: 0.d1d2..dn * 10^dp.  Zero has
\* no digit.
Float64Of(neg, digits, dp) == [k |-> "float64", neg |-> neg, digits |-> digits, dp |-> dp]

\* constant.MakeFloat64 of a finite value: x + 0, which turns -0 into 0.
MakeFloat64(flt) == IF flt.digits = <<>> THEN [flt EXCEPT !.neg = FALSE] ELSE flt

\* strconv's fmtE with the shortest precision: d.ddde+xx, the exponent on
\* two digits at least.
fmtE(flt) ==
    LET exp == IF flt.digits = <<>> THEN 0 ELSE flt.dp - 1
        mag == IF exp < 0 THEN 0 - exp ELSE exp
    IN  (IF flt.neg THEN <<"-">> ELSE <<>>)
            \o (IF flt.digits = <<>> THEN <<"0">> ELSE <<flt.digits[1]>>)
            \o (IF Len(flt.digits) > 1 THEN <<".">> \o Tail(flt.digits) ELSE <<>>)
            \o <<"e", IF exp < 0 THEN "-" ELSE "+">>
            \o (IF mag < 10 THEN <<"0">> ELSE <<>>) \o FormatDigits(mag)

\* strconv's fmtF with the digits after the point that the value has.
fmtF(flt) ==
    LET nd == Len(flt.digits)
        prec == IF nd > flt.dp THEN nd - flt.dp ELSE 0
    IN  (IF flt.neg THEN <<"-">> ELSE <<>>)
            \o (IF flt.dp > 0
                THEN [i \in 1 .. flt.dp |-> IF i <= nd THEN flt.digits[i] ELSE "0"]
                ELSE <<"0">>)
            \o (IF prec > 0
                THEN <<".">> \o [i \in 1 .. prec |->
                                    IF flt.dp + i >= 1 /\ flt.dp + i <= nd
                                    THEN flt.digits[flt.dp + i] ELSE "0"]
                ELSE <<>>)

\* fmt's %g of a float64: the shortest digits that read back as the value,
\* with an exponent when it is less than -4 or at least 6.
FormatG(flt) ==
    IF flt.dp - 1 < 0 - 4 \/ flt.dp - 1 >= 6 THEN fmtE(flt) ELSE fmtF(flt)

\* The text of a float with no point and no exponent, taken as it is.
TrailingZeroSkipped(text) == text

\* MarshalNumber: "Preserve at least a trailing .0 to keep floats as floats."
TrailingZero(text) ==
    IF ~ContainsAny(text, {".", "e", "E"}) THEN text \o <<".", "0">> ELSE text

\* MarshalerBase.MarshalNumber on a constant of kind Int or Float.
MarshalNumber(m, v) ==
    CASE v.k = "int" ->
            WriteString(m, IF v.n < 0 THEN <<"-">> \o FormatDigits(-v.n)
                           ELSE FormatDigits(v.n))
      [] v.k = "float64" -> WriteString(m, TrailingZero(FormatG(v)))
      [] OTHER -> [m EXCEPT !.err = "unsupported constant"]

MarshalNaN(m) == WriteString(m, <<"n", "a", "n">>)

MarshalInf(m, sign) ==
    WriteString(WriteString(m, IF sign >= 0 THEN <<"+">> ELSE <<"-">>), <<"i", "n", "f">>)

MarshalList(m, v) ==
    LET ok == m.valdepth > 0 \/ isValueType(v)
        m1 == [m EXCEPT !.listofmap = Append(@, ~ok)]
        m2 == WriteString([m1 EXCEPT !.listdepth = @ + 1], <<"[">>)
    IN  IF ~ok THEN m1
        ELSE IF Len(v.elems) = 0 THEN m2
        ELSE IF m.valdepth = 1 THEN WriteNewline(m2)
        ELSE WriteString(m2, <<" ">>)

MarshalListPost(m, v) ==
    LET m1 == [m EXCEPT !.listofmap = Front(@)]
        m2 == [m1 EXCEPT !.listdepth = @ - 1]
    IN  IF Last(m.listofmap) THEN m1
        ELSE WriteString(IF m2.valdepth = 1
                         THEN WriteIndent(m2, depth(m2, 0) + m2.listdepth)
                         ELSE m2, <<"]">>)

MarshalListElem(m) ==
    IF ~Last(m.listofmap)
    THEN IF m.valdepth = 1 THEN WriteIndent(m, depth(m, 0) + m.listdepth) ELSE m
    ELSE LET m1 == IF ~m.first THEN WriteNewline(m) ELSE m
             m2 == WriteString(WriteIndent(m1, depth(m1, 1)), <<"[", "[">>)
             m3 == WriteString(writeKeyPath(m2, m2.path), <<"]", "]", "\n">>)
         IN  [m3 EXCEPT !.curdepth = @ + 1]

MarshalListElemPost(m, l, i) ==
    IF ~Last(m.listofmap)
    THEN LET m1 == IF m.valdepth = 1 \/ i # Len(l.elems) - 1
                   THEN WriteString(m, <<",">>) ELSE m
         IN  IF m.valdepth = 1 THEN WriteNewline(m1) ELSE WriteString(m1, <<" ">>)
    ELSE [m EXCEPT !.curdepth = @ - 1]

\* The entries as they come: MarshalMap without its sort.
SortTablesSkipped(m, kvs) == kvs

\* MarshalMap: the entries, with the ones that make tables after the others
\* (a stable sort) unless the map is written inline.
SortTables(m, kvs) ==
    IF m.inline THEN kvs
    ELSE SelectSeq(kvs, LAMBDA kv : isValueType(kv.Value))
            \o SelectSeq(kvs, LAMBDA kv : ~isValueType(kv.Value))

MarshalMap(m) == IF m.inline THEN WriteString(m, <<"{", " ">>) ELSE m

MarshalMapPost(m) == IF m.inline THEN WriteString(m, <<"}">>) ELSE m

MarshalMapKey(m, kv) ==
    LET m1 == [m EXCEPT !.path = Append(@, kv.Key)]
        m2 == IF m1.valdepth = 0 THEN WriteIndent(m1, depth(m1, 0)) ELSE m1
        m3 == WriteString(writeKey(m2, kv.Key), <<" ", "=", " ">>)
        m4 == IF ~m1.first THEN WriteNewline(m1) ELSE m1
        m5 == WriteString(WriteIndent(m4, depth(m4, 1)), <<"[">>)
        m6 == WriteString(writeKeyPath(m5, m5.path), <<"]", "\n">>)
    IN  IF m1.valdepth > 0 \/ isValueType(kv.Value) THEN [m3 EXCEPT !.first = FALSE]
        ELSE IF kv.Value.k # "list" THEN [m6 EXCEPT !.curdepth = @ + 1]
        ELSE m1

MarshalMapValue(m, kv) ==
    IF m.valdepth > 0 \/ isValueType(kv.Value)
    THEN [m EXCEPT !.valdepth = @ + 1, !.inline = TRUE]
    ELSE m

\* MarshalMapValuePost: mv.Len() panics on a struct.
MarshalMapValuePost(m, mv, kv, i) ==
    LET m1 == [m EXCEPT !.path = Front(@)]
        m2 == [m1 EXCEPT !.valdepth = @ - 1]
    IN  IF m1.valdepth > 0 \/ isValueType(kv.Value)
        THEN IF m2.valdepth = 0 THEN WriteNewline([m2 EXCEPT !.inline = FALSE])
             ELSE IF mv.k = "struct" THEN [m2 EXCEPT !.err = PanicLen]
             ELSE IF i # Len(mv.keys) - 1 THEN WriteString(m2, <<",", " ">>)
             ELSE WriteString(m2, <<" ">>)
        ELSE IF kv.Value.k # "list" THEN [m1 EXCEPT !.curdepth = @ - 1]
        ELSE m1

\* The order of the strings of lower-case letters.
RECURSIVE StringLess(_, _)
StringLess(a, b) ==
    IF a = <<>> \/ b = <<>> THEN a = <<>> /\ b # <<>>
    ELSE IF Head(a) = Head(b) THEN StringLess(Tail(a), Tail(b))
    ELSE (CHOOSE i \in 1 .. Len(Alphabet) : Alphabet[i] = Head(a))
            < (CHOOSE i \in 1 .. Len(Alphabet) : Alphabet[i] = Head(b))

\* sort.Slice(kvs, ...) by key, the keys of a map being distinct.
RECURSIVE SortByKey(_)
SortByKey(kvs) ==
    IF kvs = <<>> THEN <<>>
    ELSE LET least == CHOOSE i \in 1 .. Len(kvs) :
                         \A j \in 1 .. Len(kvs) : ~StringLess(kvs[j].Key, kvs[i].Key)
         IN  <<kvs[least]>>
                \o SortByKey([j \in 1 .. Len(kvs) - 1 |->
                                 IF j < least THEN kvs[j] ELSE kvs[j + 1]])

\* reflectutil.VisibleFieldsAsMapEntries with the naming convention of the
\* TOML encoder.
VisibleFieldsAsMapEntries(val) ==
    [i \in 1 .. Len(val.fields) |->
        MapEntry(SnakeCase(val.fields[i].Name), val.fields[i].Value)]

RECURSIVE reflectMarshal(_, _)
RECURSIVE marshalElems(_, _, _)
RECURSIVE marshalEntries(_, _, _, _)

\* The entries of a map, sorted by key, or of the visible fields of a
\* struct.
EntriesOf(val) ==
    IF val.k = "map"
    THEN SortByKey([i \in 1 .. Len(val.keys) |->
                       MapEntry(val.keys[i].text, val.elems[i])])
    ELSE VisibleFieldsAsMapEntries(val)

\* reflectutil.Marshal, the end of the reflect.Slice case.
marshalListPost(ml, val) == IF ml.err # "" THEN ml ELSE MarshalListPost(ml, val)

\* reflectutil.Marshal, the end of the reflect.Map and reflect.Struct cases.
marshalMapPost(me) == IF me.err # "" THEN me ELSE MarshalMapPost(me)

\* nilFallback: the marshaler of TOML is no NilMarshaler.
CannotEncodeNil == "format cannot encode nil"

\* reflectutil.Marshal after the call of MarshalValue.
marshalKind(m0, val) ==
    IF m0.err # "" THEN m0
    ELSE CASE val.k = "bool" -> MarshalBool(m0, val.b)
           [] val.k \in {"int", "int64"} -> MarshalNumber(m0, IntValue(val.n))
           [] val.k = "nan" -> MarshalNaN(m0)
           [] val.k = "inf" -> MarshalInf(m0, val.sign)
           [] val.k = "float64" -> MarshalNumber(m0, MakeFloat64(val))
           [] val.k = "string" -> MarshalString(m0, val.s)
           [] val.k = "nil" -> [m0 EXCEPT !.err = CannotEncodeNil]
           [] val.k = "list" ->
                marshalListPost(marshalElems(MarshalList(m0, val), val, 1), val)
           [] val.k = "map" /\ \E i \in 1 .. Len(val.keys) : val.keys[i].err # "" ->
                [m0 EXCEPT !.err =
                    val.keys[CHOOSE i \in 1 .. Len(val.keys) : val.keys[i].err # ""].err]
           [] val.k \in KindsOfMaps ->
                marshalMapPost(marshalEntries(MarshalMap(m0), val,
                                              SortTables(m0, EntriesOf(val)), 1))
           [] OTHER -> [m0 EXCEPT !.err = "cannot marshal: unsupported type"]

\* reflectutil.Marshal
reflectMarshal(m, val) == marshalKind(MarshalValue(m, val), val)

marshalElemPost(m1, l, i) ==
    IF m1.err # "" THEN m1
    ELSE marshalElems(MarshalListElemPost(m1, l, i - 1), l, i + 1)

\* The loop of the reflect.Slice case, from element i on.
marshalElems(m, l, i) ==
    IF i > Len(l.elems) THEN m
    ELSE marshalElemPost(reflectMarshal(MarshalListElem(m), l.elems[i]), l, i)

marshalNextEntry(m2, mv, kvs, i) ==
    IF m2.err # "" THEN m2 ELSE marshalEntries(m2, mv, kvs, i + 1)

marshalEntryPost(m1, mv, kvs, i) ==
    IF m1.err # "" THEN m1
    ELSE marshalNextEntry(MarshalMapValuePost(m1, mv, kvs[i], i - 1), mv, kvs, i)

\* The loop over the entries of a map or of a struct, from entry i on.
marshalEntries(m, mv, kvs, i) ==
    IF i > Len(kvs) THEN m
    ELSE IF kvs[i].Value.k = "nil" THEN marshalEntries(m, mv, kvs, i + 1)
    ELSE marshalEntryPost(
             reflectMarshal(MarshalMapValue(MarshalMapKey(m, kvs[i]), kvs[i]),
                            kvs[i].Value),
             mv, kvs, i)

\* The struct case of unmarshal without merge, on the keys of a file: the
\* struct is zeroed, then each key that names a visible field is bound; the
\* other keys are skipped.
RECURSIVE unmarshalStruct(_, _, _)
unmarshalStruct(val, zero, keys) ==
    IF keys = <<>> THEN zero
    ELSE LET prior == unmarshalStruct(val, zero, Front(keys))
             key == Last(keys)
         IN  [prior EXCEPT !.fields =
                 [i \in DOMAIN prior.fields |->
                     IF prior.fields[i].Name = key.name
                     THEN [prior.fields[i] EXCEPT !.Value = key.value]
                     ELSE prior.fields[i]]]

(***************************************************************************)
(* The destination, the files and the environments of the model.  The      *)
(* destination is                                                          *)
(*     struct { Path []string `env:"PATH"`; Shell string; Port int;       *)
(*              Hosts map[Key]string }                                     *)
(* where Key is a text marshaler.                                          *)
(***************************************************************************)
PATH == <<"P", "A", "T", "H">>
BOA == <<"B", "O", "A">>
APP == <<"A", "P", "P">>
BOA_SHELL == <<"B", "O", "A", "_", "S", "H", "E", "L", "L">>
APP_SHELL == <<"A", "P", "P", "_", "S", "H", "E", "L", "L">>
BOA_PORT == <<"B", "O", "A", "_", "P", "O", "R", "T">>
BOA_HOSTS_WEB == <<"B", "O", "A", "_", "H", "O", "S", "T", "S", "_", "W", "E", "B">>
EnvNames == {PATH, BOA_SHELL, APP_SHELL, BOA_PORT, BOA_HOSTS_WEB}

Config ==
    StructOf(<<Field(<<"P", "a", "t", "h">>, PATH, ListOf("string", <<>>)),
               Field(<<"S", "h", "e", "l", "l">>, <<>>, StringOf(<<>>)),
               Field(<<"P", "o", "r", "t">>, <<>>, IntOf(0)),
               Field(<<"H", "o", "s", "t", "s">>, <<>>, MapOf(<<>>, <<>>))>>)

\* The value of the field of a struct with the given Go name.
FieldByName(val, name) ==
    val.fields[CHOOSE i \in DOMAIN val.fields : val.fields[i].Name = name].Value

\* A map key of the model: its text, and the error of its MarshalText.
Key(text, err) == [text |-> text, err |-> err]

FileKey(name, value) == [name |-> name, value |-> value]

Files ==
    {<<>>,
     <<FileKey(<<"S", "h", "e", "l", "l">>, StringOf(<<"s", "h">>))>>,
     <<FileKey(<<"P", "o", "r", "t">>, IntOf(22)),
       FileKey(<<"U", "s", "e", "r">>, StringOf(<<"m", "e">>))>>,
     <<FileKey(<<"P", "a", "t", "h">>, ListOf("string", <<StringOf(<<"/", "b">>)>>))>>,
     <<FileKey(<<"P", "a", "t", "h">>,
               ListOf("string", <<StringOf(<<"/", "b">>), StringOf(<<"/", "u">>)>>)),
       FileKey(<<"S", "h", "e", "l", "l">>, StringOf(<<"s", "h">>))>>,
     <<FileKey(<<"H", "o", "s", "t", "s">>,
               MapOf(<<Key(<<"w", "e", "b">>, "")>>, <<StringOf(<<"a">>)>>))>>,
     <<FileKey(<<"H", "o", "s", "t", "s">>,
               MapOf(<<Key(<<"w", "e", "b">>, "cannot marshal key")>>,
                     <<StringOf(<<"a">>)>>))>>}

Environs ==
    {e \in [EnvNames -> {Unset, IsSet(<<"/", "o">>), IsSet(<<"/", "a", ":", "/", "c">>),
                         IsSet(<<"8", "0">>), IsSet(<<"z", "s", "h">>)}] :
        /\ e[PATH] \in {Unset, IsSet(<<"/", "o">>), IsSet(<<"/", "a", ":", "/", "c">>)}
        /\ e[BOA_SHELL] \in {Unset, IsSet(<<"z", "s", "h">>)}
        /\ e[APP_SHELL] \in {Unset, IsSet(<<"/", "o">>)}
        /\ e[BOA_PORT] \in {Unset, IsSet(<<"8", "0">>), IsSet(<<"z", "s", "h">>)}
        /\ e[BOA_HOSTS_WEB] \in {Unset, IsSet(<<"/", "o">>)}}

EnvPrefixes == {<<>>, <<BOA>>, <<BOA, APP>>}

NoEnv == [automatic |-> FALSE, names |-> <<>>, environ |-> [n \in EnvNames |-> Unset]]
NoDest ==
    [pc |-> "off", files |-> 0, value |-> Config, file |-> Config, err |-> "", json |-> FALSE]

(***************************************************************************)
(* TOML documents of the model: up to MaxLines lines of a menu, then a     *)
(* tail that may leave the last line open.                                 *)
(***************************************************************************)
TomlLines ==
    {<<"a", " ", "=", " ", "1", "\n">>,
     <<"a", ".", "b", " ", "=", " ", "2", "\n">>,
     <<"[", "a", "]", "\n">>,
     <<"[", "[", "a", "]", "]", "\n">>,
     <<"[", "a", ".", "b", "]", "\n">>}

TomlTails ==
    {<<>>,
     <<"#", "c">>,
     <<"]">>,
     <<"a", "=", "[", "[", "1", "]", "]">>,
     <<"1", ".", "\n">>}

RECURSIVE LinesUpTo(_, _)
LinesUpTo(lines, n) ==
    IF n = 0 THEN {<<>>}
    ELSE LinesUpTo(lines, n - 1)
            \cup {d \o l : d \in LinesUpTo(lines, n - 1), l \in lines}

TomlDocs == {d \o t : d \in LinesUpTo(TomlLines, MaxLines), t \in TomlTails}

NoOutput == [written |-> FALSE, text |-> <<>>,
             decoded |-> FALSE, value |-> NilValue, err |-> ""]

\* What the parser sees of its lexer: the tokens sent so far, and whether the
\* channel is closed.
View == [parser EXCEPT !.p.toks = lexer.tokens, !.p.closed = lexer.closed]

TomlInit ==
    /\ input \in TomlDocs
    /\ lexer = NewLexer(input, "lex")
    /\ parser = NewParse
    /\ output = NoOutput
    /\ env = NoEnv
    /\ dest = NoDest

\* Lexer.Next, default branch: the parser waits for a token, the channel is
\* empty, the state function runs.
TomlLexerNext ==
    /\ parser.pc = "parse"
    /\ ~lexer.closed /\ lexer.panic = ""
    /\ ParseTurn(View).err = Starved
    /\ lexer' = tomlState(lexer)
    /\ UNCHANGED <<input, parser, output, env, dest>>

\* parser.Parse: one turn of its loop, up to its return.
TomlParse ==
    /\ parser.pc = "parse"
    /\ \E ps \in {ParseTurn(View)} :
          /\ ps.err # Starved
          /\ parser' = ps
    /\ UNCHANGED <<input, lexer, output, env, dest>>

\* Encoder.Encode of the document the parser returned.
TomlEncode ==
    /\ parser.pc = "done" /\ parser.returned
    /\ ~output.written
    /\ output' = [output EXCEPT !.written = TRUE, !.text = Marshal(parser.root)]
    /\ UNCHANGED <<input, lexer, parser, env, dest>>

\* Decoder.Decode, from the return of the parser on.
TomlDecode ==
    /\ parser.pc = "done"
    /\ ~output.decoded
    /\ \E r \in {Decode(parser)} :
          output' = [output EXCEPT !.decoded = TRUE, !.value = r.v, !.err = r.err]
    /\ UNCHANGED <<input, lexer, parser, env, dest>>

TomlNext == TomlLexerNext \/ TomlParse \/ TomlEncode \/ TomlDecode

Spec == TomlInit /\ [][TomlNext]_vars

(***************************************************************************)
(* UnmarshalerBase.Decode into the destination of the model, with the      *)
(* environment overlay.                                                    *)
(***************************************************************************)
EnvInit ==
    /\ input = <<>>
    /\ lexer = NewLexer(input, "lex")
    /\ parser = NewParse
    /\ output = NoOutput
    /\ env \in [automatic : BOOLEAN, names : EnvPrefixes, environ : Environs]
    /\ dest = [NoDest EXCEPT !.pc = "files"]

\* The decode closure on the next file of a MultiFile, or on the only file.
EnvDecodeFile ==
    /\ dest.pc = "files"
    /\ dest.files < MaxFiles
    /\ \E file \in Files :
          \E val \in {unmarshalStruct(dest.value, Config, file)} :
              dest' = [dest EXCEPT !.files = @ + 1, !.value = val, !.file = val]
    /\ UNCHANGED <<input, lexer, parser, output, env>>

\* The call of PopulateFromEnv that ends Decode; rev is the order in which
\* the ranges over the maps of candidate names run.
EnvPopulate ==
    /\ dest.pc = "files"
    /\ \E rev \in BOOLEAN :
          \E r \in {PopulateFromEnv(dest.value, env.automatic, env.names,
                                      env.environ, rev)} :
              dest' = [dest EXCEPT !.pc = "done", !.value = r.to, !.err = r.err]
    /\ UNCHANGED <<input, lexer, parser, output, env>>

EnvNext == EnvDecodeFile \/ EnvPopulate

SpecEnv == EnvInit /\ [][EnvNext]_vars

(***************************************************************************)
(* The values of the model for the encoder: 64-bit integers, strings,      *)
(* booleans, a record, and slices of interface{} and maps of interface{}   *)
(* that hold them, two levels deep; a document is a map or a record.       *)
(***************************************************************************)
(* The JSON5 lexer.  A token is its type, its value and its raw text; the  *)
(* lexer is given as the sequence of the tokens it emits for a text, the   *)
(* last one being TokenEOF or TokenError.                                  *)
(***************************************************************************)
TokenColon == "':'"
TokenPlus == "'+'"
TokenMinus == "'-'"

Tok(type, raw) == [Type |-> type, Value |-> NoValue, Raw |-> raw]
TokVal(type, value, raw) == [Type |-> type, Value |-> value, Raw |-> raw]

\* The value of constant.Make for a Go int, and of constant.MakeFloat64 for
\* an infinity or a NaN: of kind Unknown.
UnknownValue == [k |-> "unknown"]

Punctuation ==
    [c \in {"{", "}", "[", "]", ":", ",", "+", "-"} |->
        CASE c = "{" -> TokenLBrace [] c = "}" -> TokenRBrace
          [] c = "[" -> TokenLSquare [] c = "]" -> TokenRSquare
          [] c = ":" -> TokenColon [] c = "," -> TokenComma
          [] c = "+" -> TokenPlus [] c = "-" -> TokenMinus]

\* unicode.IsSpace on the runes of the model that are not line breaks.
Blanks == {" ", "\t"}
LineBreaks == {"\n", "\r"}

json5IsIdentifierChar(r, i) ==
    \/ r \in Lower \cup Upper \cup {"$", "_", "\\"}
    \/ i > 0 /\ r \in Digits

\* Lexer.AcceptUntil(fn): the index after the run, from i on, of the runes
\* that are in S.
RECURSIVE AcceptWhile(_, _, _)
AcceptWhile(text, i, S) ==
    IF i <= Len(text) /\ text[i] \in S THEN AcceptWhile(text, i + 1, S) ELSE i

\* The index after the run of identifier characters from i on, the run
\* having n characters before i.
RECURSIVE AcceptIdentifier(_, _, _)
AcceptIdentifier(text, i, n) ==
    IF i <= Len(text) /\ json5IsIdentifierChar(text[i], n)
    THEN AcceptIdentifier(text, i + 1, n + 1) ELSE i

\* What big.ParseFloat accepts in base 10 of the texts lexNumber gives it.
rfloat5 ==
    RCats(<<rsign,
            RAlt(RCat(RPlus(RSet(Digits)), ROpt(RCat(RChr("."), RStar(RSet(Digits))))),
                 RCat(RChr("."), RPlus(RSet(Digits)))),
            ROpt(RCats(<<RSet({"e", "E"}), rsign, RPlus(RSet(Digits))>>))>>)

RECURSIVE json5Lex(_, _, _, _)

\* Lexer.Error
json5Error(text, i, j, toks) ==
    Append(toks, Tok(TokenError, SubSeq(text, i, j - 1)))

\* lexerState.lexString after the delimiter, val the runes read so far: from
\* index j of a string that starts at i.
RECURSIVE json5LexString(_, _, _, _, _, _)
json5LexString(text, i, j, delim, val, toks) ==
    IF j > Len(text) THEN json5Error(text, i, j, toks)
    ELSE IF text[j] = delim
    THEN json5Lex(text, j + 1, FALSE,
                  Append(toks, TokVal(TokenString, StrValue(val), SubSeq(text, i, j))))
    ELSE IF text[j] \in LineBreaks THEN json5Error(text, i, j + 1, toks)
    ELSE IF text[j] # "\\" THEN json5LexString(text, i, j + 1, delim, Append(val, text[j]), toks)
    ELSE IF j + 1 > Len(text) THEN json5Error(text, i, j + 1, toks)
    ELSE IF text[j + 1] = "\r" /\ j + 2 <= Len(text) /\ text[j + 2] = "\n"
    THEN json5LexString(text, i, j + 3, delim, val \o <<"\r", "\n">>, toks)
    ELSE IF text[j + 1] = "\r" /\ j + 2 > Len(text) THEN json5Error(text, i, j + 2, toks)
    ELSE json5LexString(text, i, j + 2, delim,
             CASE text[j + 1] \in {"\n", "\r", "\\", delim} -> Append(val, text[j + 1])
               [] text[j + 1] = "n" -> Append(val, "\n")
               [] text[j + 1] = "r" -> Append(val, "\r")
               [] text[j + 1] = "t" -> Append(val, "\t")
               [] OTHER -> val,
             toks)

\* lexerState.lexNumber on the run that starts at i and ends before j.
json5LexNumber(text, i, j, toks) ==
    LET num == IF i = j THEN <<"0">> ELSE SubSeq(text, i, j - 1) IN
    IF ContainsAny(num, {"e", "E", "+", "-", "."})
    THEN (IF Matches(rfloat5, num)
          THEN json5Lex(text, j, FALSE,
                        Append(toks, TokVal(TokenNumber, FloatValue(num),
                                            SubSeq(text, i, j - 1))))
          ELSE json5Error(text, i, j, toks))
    ELSE json5Lex(text, j, FALSE,
                  Append(toks, TokVal(TokenNumber, IntValue(ParseDigits(num, 10, 0)),
                                      SubSeq(text, i, j - 1))))

\* lexerState.lexHex on the run of letters and digits that ends before j,
\* the token having started at i with 0x.
json5LexHex(text, i, j, toks) ==
    IF j = i + 2 \/ \E n \in i + 2 .. j - 1 : text[n] \notin HexDigits \cup {"A", "B", "C", "D", "E", "F"}
    THEN json5Error(text, i, j, toks)
    ELSE json5Lex(text, j, FALSE,
                  Append(toks, TokVal(TokenNumber,
                                      IntValue(ParseDigits(SubSeq(text, i + 2, j - 1), 16, 0)),
                                      SubSeq(text, i, j - 1))))

\* lexerState.lexIdentifier on the run that starts at i and ends before j.
json5LexIdentifier(text, i, j, toks) ==
    LET raw == SubSeq(text, i, j - 1) IN
    \* a backslash that no unicode escape follows (the texts have no escape)
    IF ContainsAny(raw, {"\\"}) THEN json5Error(text, i, j, toks) ELSE
    json5Lex(text, j, FALSE,
        Append(toks,
            CASE raw = <<"I", "n", "f", "i", "n", "i", "t", "y">> ->
                    TokVal(TokenNumber, UnknownValue, raw)
              [] raw = <<"N", "a", "N">> -> TokVal(TokenNumber, UnknownValue, raw)
              [] raw = <<"n", "u", "l", "l">> -> Tok(TokenNil, raw)
              [] raw = <<"t", "r", "u", "e">> -> TokVal(TokenBool, BoolValue(TRUE), raw)
              [] raw = <<"f", "a", "l", "s", "e">> -> TokVal(TokenBool, BoolValue(FALSE), raw)
              [] OTHER -> TokVal(TokenIdentifier, StrValue(raw), raw)))

\* lexerState.lexBlockComment: the index after the first */ from j on, 0
\* when there is none.
RECURSIVE BlockCommentEnd(_, _)
BlockCommentEnd(text, j) ==
    IF j + 1 > Len(text) THEN 0
    ELSE IF text[j] = "*" /\ text[j + 1] = "/" THEN j + 2
    ELSE BlockCommentEnd(text, j + 1)

\* lexerState.lex from index i on, blankLine the field of the state, up to
\* the end of the input or the first error.
json5Lex(text, i, blankLine, toks) ==
    IF i > Len(text) THEN Append(toks, Tok(TokenEOF, <<>>))
    ELSE LET r == text[i]
             next == IF i < Len(text) THEN text[i + 1] ELSE ""
         IN
         CASE r \in DOMAIN Punctuation ->
                json5Lex(text, i + 1, FALSE, Append(toks, Tok(Punctuation[r], <<r>>)))
           [] r \in {"\"", "'"} -> json5LexString(text, i, i + 1, r, <<>>, toks)
           [] r = "\n" -> json5Lex(text, i + 1, FALSE, Append(toks, Tok(TokenNewline, <<r>>)))
           [] r = "\r" ->
                IF next = "\n"
                THEN json5Lex(text, i + 2, FALSE, Append(toks, Tok(TokenNewline, <<r, next>>)))
                ELSE json5Lex(text, i + 1, FALSE, Append(toks, Tok(TokenNewline, <<r>>)))
           [] r = "0" ->
                IF i = Len(text)
                THEN Append(Append(toks, TokVal(TokenNumber, UnknownValue, <<r>>)),
                            Tok(TokenEOF, <<>>))
                ELSE IF next \in {"x", "X"}
                THEN json5LexHex(text, i,
                                 AcceptWhile(text, i + 2, Lower \cup Upper \cup Digits), toks)
                ELSE IF next \in {".", "e", "E"}
                THEN json5LexNumber(text, i,
                                    AcceptWhile(text, i, Digits \cup {"e", "E", "+", "-", "."}),
                                    toks)
                ELSE IF next \in Digits THEN json5Error(text, i, i + 2, toks)
                ELSE \* the rune read after the 0 is not unread: it is in the token
                     json5Lex(text, i + 2, FALSE,
                              Append(toks, TokVal(TokenNumber, UnknownValue, <<r, next>>)))
           [] r \in (Digits \ {"0"}) \cup {"."} ->
                json5LexNumber(text, i,
                               AcceptWhile(text, i, Digits \cup {"e", "E", "+", "-", "."}),
                               toks)
           [] r = "/" ->
                IF next = "/"
                THEN LET j == AcceptWhile(text, i + 2,
                                          {text[n] : n \in 1 .. Len(text)} \ LineBreaks)
                     IN  json5Lex(text, j, FALSE,
                             Append(toks,
                                 TokVal(IF blankLine THEN TokenComment ELSE TokenInlineComment,
                                        StrValue(TrimSpace(SubSeq(text, i + 2, j - 1))),
                                        SubSeq(text, i, j - 1))))
                ELSE IF next = "*"
                THEN LET j == BlockCommentEnd(text, i + 2)
                     IN  IF j = 0 THEN json5Error(text, i, Len(text) + 1, toks)
                         ELSE json5Lex(text, j, blankLine,
                                  Append(toks,
                                      TokVal(TokenComment,
                                             StrValue(TrimSpace(SubSeq(text, i + 2, j - 3))),
                                             SubSeq(text, i, j - 1))))
                ELSE json5Error(text, i, IF i + 1 > Len(text) THEN i + 1 ELSE i + 2, toks)
           [] r \in Blanks ->
                LET j == AcceptWhile(text, i + 1, Blanks)
                IN  IF j > Len(text)
                    THEN Append(Append(toks, Tok(TokenWhitespace, SubSeq(text, i, j - 1))),
                                Tok(TokenEOF, <<>>))
                    ELSE json5Lex(text, j, blankLine \/ text[j] \in LineBreaks,
                                  Append(toks, Tok(TokenWhitespace, SubSeq(text, i, j - 1))))
           [] json5IsIdentifierChar(r, 0) ->
                json5LexIdentifier(text, i, AcceptIdentifier(text, i, 0), toks)
           [] OTHER -> json5Error(text, i, i + 1, toks)

\* newLexer: the tokens of a text, the state starting on a blank line.
newLexer(text) == json5Lex(text, 1, TRUE, <<>>)

(***************************************************************************)
(* The JSON5 parser, on the tokens of its lexer.  The siblings of the      *)
(* source are the sequence Children of the parent; the positions of the    *)
(* nodes are left out of the trees.                                        *)
(***************************************************************************)
Trivia == {TokenComment, TokenInlineComment, TokenNewline, TokenWhitespace}

\* Lexer.Next: the token at an index; the zero token once the channel is
\* closed.
TokenAt(tokens, i) == IF i > Len(tokens) THEN Tok(TokenEOF, <<>>) ELSE tokens[i]

\* parser.Next: the index of the first token from i on that is not trivia;
\* the tokens before it are appended to the list that Next is given.
RECURSIVE parserNext(_, _)
parserNext(tokens, i) ==
    IF TokenAt(tokens, i).Type \in Trivia THEN parserNext(tokens, i + 1) ELSE i

Between(tokens, i, j) == SubSeq(tokens, i, j - 1)

\* parser.Error
parserError(token, err) ==
    IF token.Type = TokenError THEN <<"lexer error">> ELSE <<err, token.Type>>

Parsed(node, next) == [node |-> node, next |-> next, err |-> <<>>]
ParseFailed(err) == [node |-> ZeroNode, next |-> 0, err |-> err]

\* constant.UnaryOp(SUB, v): the number with the other sign.
Negated(v) ==
    CASE v.k = "int" -> IntValue(0 - v.n)
      [] v.k = "float" -> FloatValue(<<"-">> \o v.s)
      [] OTHER -> v

RECURSIVE parserValue(_, _, _)
RECURSIVE parserMembers(_, _, _, _)
RECURSIVE parserEntries(_, _, _, _)

\* The end of parser.Object: the closing token is appended to the suffix of
\* the last value, or of the object when it has no member.
EndObject(node, keys, token) ==
    IF keys = <<>> THEN [node EXCEPT !.Suffix = Append(@, token)]
    ELSE [node EXCEPT
             !.Children = [keys EXCEPT ![Len(keys)].Children[1].Suffix = Append(@, token)]]

\* The end of parser.List.
EndList(node, entries, token) ==
    IF entries = <<>> THEN [node EXCEPT !.Suffix = Append(@, token)]
    ELSE [node EXCEPT !.Children = [entries EXCEPT ![Len(entries)].Suffix = Append(@, token)]]

\* parser.Object and parser.List after the call of Value, r its result, s
\* the index of the token that follows the value: a comma, which joins the
\* suffix of the value with the trivia around it, or the closing token.
parserAfterValue(tokens, r, s, closing) ==
    IF r.err # <<>> THEN r
    ELSE IF TokenAt(tokens, s).Type = TokenComma
    THEN Parsed([r.node EXCEPT
                    !.Suffix = @ \o Between(tokens, r.next, s) \o <<tokens[s]>>
                                 \o Between(tokens, s + 1, parserNext(tokens, s + 1))],
                parserNext(tokens, s + 1))
    ELSE IF TokenAt(tokens, s).Type # closing
    THEN ParseFailed(parserError(TokenAt(tokens, s), "expected closing token"))
    ELSE Parsed([r.node EXCEPT !.Suffix = @ \o Between(tokens, r.next, s)], s)

parserMember(tokens, node, keys, key, r) ==
    IF r.err # <<>> THEN r
    ELSE parserMembers(tokens, r.next, node,
                       Append(keys, [key EXCEPT !.Children = <<r.node>>]))

\* The loop of parser.Object, on the token at i.
parserMembers(tokens, i, node, keys) ==
    LET colon == parserNext(tokens, i + 1)
        v == parserNext(tokens, colon + 1)
        key == [ZeroNode EXCEPT
                   !.Type = NodeString,
                   !.Value = TokenAt(tokens, i).Value,
                   !.Tokens = <<TokenAt(tokens, i)>> \o Between(tokens, i + 1, colon)
                                 \o <<TokenAt(tokens, colon)>>]
        r == parserValue(tokens, v, [ZeroNode EXCEPT !.Tokens = Between(tokens, colon + 1, v)])
    IN
    IF TokenAt(tokens, i).Type = TokenRBrace
    THEN Parsed(EndObject(node, keys, tokens[i]), i + 1)
    ELSE IF TokenAt(tokens, i).Type \notin {TokenIdentifier, TokenString}
    THEN ParseFailed(parserError(TokenAt(tokens, i), "expected string or identifier"))
    ELSE IF TokenAt(tokens, colon).Type # TokenColon
    THEN ParseFailed(parserError(TokenAt(tokens, colon), "expected ':'"))
    ELSE parserMember(tokens, node, keys, key,
             IF r.err # <<>> THEN r
             ELSE parserAfterValue(tokens, r, parserNext(tokens, r.next), TokenRBrace))

\* parser.Object
parserObject(tokens, i, node) ==
    parserMembers(tokens, parserNext(tokens, i + 1),
                  [node EXCEPT !.Type = NodeMap,
                               !.Tokens = @ \o <<tokens[i]>>
                                            \o Between(tokens, i + 1, parserNext(tokens, i + 1))],
                  <<>>)

parserEntry(tokens, node, entries, r) ==
    IF r.err # <<>> THEN r
    ELSE parserEntries(tokens, r.next, node, Append(entries, r.node))

\* The loop of parser.List, on the token at i.
parserEntries(tokens, i, node, entries) ==
    LET r == parserValue(tokens, i, ZeroNode) IN
    IF TokenAt(tokens, i).Type = TokenRSquare
    THEN Parsed(EndList(node, entries, tokens[i]), i + 1)
    ELSE parserEntry(tokens, node, entries,
             IF r.err # <<>> THEN r
             ELSE parserAfterValue(tokens, r, parserNext(tokens, r.next), TokenRSquare))

\* parser.List
parserList(tokens, i, node) ==
    parserEntries(tokens, parserNext(tokens, i + 1),
                  [node EXCEPT !.Type = NodeList,
                               !.Tokens = @ \o <<tokens[i]>>
                                            \o Between(tokens, i + 1, parserNext(tokens, i + 1))],
                  <<>>)

\* parser.Value on the token at i, into a node that holds the trivia read
\* before the token.
parserValue(tokens, i, node) ==
    LET token == TokenAt(tokens, i)
        n == parserNext(tokens, i + 1)
    IN
    CASE token.Type = TokenLBrace -> parserObject(tokens, i, node)
      [] token.Type = TokenLSquare -> parserList(tokens, i, node)
      [] token.Type = TokenString ->
            Parsed([node EXCEPT !.Type = NodeString, !.Value = token.Value,
                                !.Tokens = Append(@, token)], i + 1)
      [] token.Type = TokenNumber ->
            Parsed([node EXCEPT !.Type = NodeNumber, !.Value = token.Value,
                                !.Tokens = Append(@, token)], i + 1)
      [] token.Type = TokenBool ->
            Parsed([node EXCEPT !.Type = NodeBool, !.Value = token.Value,
                                !.Tokens = Append(@, token)], i + 1)
      [] token.Type = TokenNil ->
            Parsed([node EXCEPT !.Type = NodeNil, !.Tokens = Append(@, token)], i + 1)
      [] token.Type \in {TokenMinus, TokenPlus} ->
            IF TokenAt(tokens, n).Type # TokenNumber
            THEN ParseFailed(parserError(TokenAt(tokens, n), "unexpected token"))
            ELSE Parsed([node EXCEPT
                            !.Type = NodeNumber,
                            !.Value = IF token.Type = TokenMinus
                                      THEN Negated(tokens[n].Value) ELSE tokens[n].Value,
                            !.Tokens = Append(@, token) \o Between(tokens, i + 1, n)
                                          \o <<tokens[n]>>],
                        n + 1)
      [] OTHER -> ParseFailed(parserError(token, "unexpected token"))

\* parser.Parse after the call of Value: the trivia up to the end of the
\* input joins the suffix of the root value.
parserParseEnd(tokens, r) ==
    IF r.err # <<>> THEN r
    ELSE IF TokenAt(tokens, parserNext(tokens, r.next)).Type # TokenEOF
    THEN ParseFailed(parserError(TokenAt(tokens, parserNext(tokens, r.next)),
                                 "expected end of file"))
    ELSE Parsed([r.node EXCEPT
                    !.Suffix = @ \o Between(tokens, r.next, parserNext(tokens, r.next))],
                parserNext(tokens, r.next))

\* parser.Parse: the root value, the child of the document node.
parserParse(tokens) ==
    IF TokenAt(tokens, parserNext(tokens, 1)).Type = TokenError
    THEN ParseFailed(parserError(TokenAt(tokens, parserNext(tokens, 1)), ""))
    ELSE parserParseEnd(tokens,
             parserValue(tokens, parserNext(tokens, 1),
                         [ZeroNode EXCEPT !.Tokens = Between(tokens, 1, parserNext(tokens, 1))]))

(***************************************************************************)
(* The JSON5 marshaler: the encoder of values (reflectutil.Marshal with    *)
(* the methods of the marshaler of package json5) and the encoder of a     *)
(* parsed tree (Node.Marshal).  The option JSON() sets the field json.     *)
(***************************************************************************)
\* json5.NewEncoder, then Option(JSON()) when json holds.
json5NewEncoder(json) ==
    [out |-> <<>>, depth |-> 0, newline |-> FALSE, json |-> json, prefix |-> <<>>,
     reformat |-> FALSE, err |-> ""]

\* A field of a struct type with its tags: ignored with a tag "-", and the
\* lines of its help tag.  A field whose name starts with a lower-case
\* letter is unexported.
TaggedField(name, value, ignore, help) ==
    [Name |-> name, Env |-> <<>>, Value |-> value, Ignore |-> ignore, Help |-> help]

FieldIgnored(field) == "Ignore" \in DOMAIN field /\ field.Ignore
FieldHelp(field) == IF "Help" \in DOMAIN field THEN field.Help ELSE <<>>

\* walkFields: the fields that are exported and not ignored, in the order
\* of their declaration.
VisibleFields(val) ==
    SelectSeq(val.fields, LAMBDA field : field.Name[1] \in Upper /\ ~FieldIgnored(field))

\* baseConvention.Format of camelCase(_, 0, false), from rune i on, wupper
\* telling whether an upper-case rune was written at the last boundary.
RECURSIVE CamelFrom(_, _, _)
CamelFrom(s, i, wupper) ==
    IF i > Len(s) THEN <<>>
    ELSE LET r == s[i]
             prev == IF i = 1 THEN "" ELSE s[i - 1]
             next == IF i < Len(s) THEN s[i + 1] ELSE r
             boundary == \/ i = 1
                         \/ (r \in Digits) # (prev \in Digits)
                         \/ prev \in Lower /\ r \in Upper
                         \/ r \in Upper /\ next \in Lower
             upper == r \in Upper /\ prev \in Upper
             tr == IF (upper /\ wupper) \/ (boundary /\ i # 1)
                   THEN UnicodeToUpper(r) ELSE UnicodeToLower(r)
         IN  <<tr>> \o CamelFrom(s, i + 1, IF boundary THEN tr \in Upper ELSE wupper)

\* encoding.CamelCase.Format
CamelCase(s) == CamelFrom(s, 1, FALSE)

\* An entry of reflectutil.VisibleFieldsAsMapEntries or of the map case of
\* reflectutil.Marshal, with the help of its options.
json5Entry(key, value, help) == [Key |-> key, Value |-> value, Help |-> help]

json5Entries(val) ==
    IF val.k = "map"
    THEN SortByKey([i \in 1 .. Len(val.keys) |->
                       json5Entry(val.keys[i].text, val.elems[i], <<>>)])
    ELSE [i \in 1 .. Len(VisibleFields(val)) |->
             json5Entry(CamelCase(VisibleFields(val)[i].Name), VisibleFields(val)[i].Value,
                        FieldHelp(VisibleFields(val)[i]))]

\* reflectutil.Len: the length of a map or of a list, the number of fields
\* of a struct.
reflectLen(val) ==
    CASE val.k = "struct" -> Len(val.fields)
      [] val.k \in {"map", "list"} -> Len(val.elems)
      [] OTHER -> 1

\* marshaler.quote, without its delimiters.
RECURSIVE json5Quoted(_, _, _)
json5Quoted(in, delim, json) ==
    IF in = <<>> THEN <<>>
    ELSE (CASE Head(in) = "\n" -> <<"\\", IF json THEN "n" ELSE "\n">>
            [] Head(in) = "\r" -> <<"\\", "r">>
            [] Head(in) \in {delim, "\\"} -> <<"\\", Head(in)>>
            [] OTHER -> <<Head(in)>>)
            \o json5Quoted(Tail(in), delim, json)

quote(m, in, delim, json) ==
    WriteString(m, <<delim>> \o json5Quoted(in, delim, json) \o <<delim>>)

\* marshaler.writeKey of package json5
json5WriteKey(m, s) ==
    IF ~m.json /\ \A i \in 1 .. Len(s) : json5IsIdentifierChar(s[i], i - 1)
    THEN WriteString(m, s)
    ELSE quote(m, s, "\"", FALSE)

\* MarshalerBase.WriteComment
RECURSIVE WriteComment(_, _, _, _)
WriteComment(m, prefix, comments, level) ==
    IF comments = <<>> THEN m
    ELSE WriteComment(WriteString(WriteString(WriteString(WriteIndent(m, level), prefix),
                                              Head(comments)), <<"\n">>),
                      prefix, Tail(comments), level)

json5MarshalString(m, s) == quote(m, s, "\"", TRUE)

json5MarshalNaN(m) ==
    IF m.json THEN [m EXCEPT !.err = "NaN is not representable in JSON"]
    ELSE WriteString(m, <<"N", "a", "N">>)

json5MarshalInf(m, sign) ==
    IF m.json THEN [m EXCEPT !.err = "infinity is not representable in JSON"]
    ELSE WriteString(WriteString(m, IF sign >= 0 THEN <<"+">> ELSE <<"-">>),
                     <<"I", "n", "f", "i", "n", "i", "t", "y">>)

MarshalNil(m) == WriteString(m, <<"n", "u", "l", "l">>)

json5MarshalList(m, v) ==
    LET m1 == WriteString([m EXCEPT !.depth = @ + 1], <<"[">>)
    IN  IF Len(v.elems) > 0 THEN WriteNewline(m1) ELSE m1

json5MarshalListPost(m, v) ==
    LET m1 == [m EXCEPT !.depth = @ - 1]
    IN  WriteString(IF Len(v.elems) > 0 THEN WriteIndent(m1, m1.depth) ELSE m1, <<"]">>)

json5MarshalListElem(m) == WriteIndent(m, m.depth)

\* MarshalListElemPost, i counted from 0.
json5MarshalListElemPost(m, l, i) ==
    WriteNewline(IF i # Len(l.elems) - 1 \/ ~m.json THEN WriteString(m, <<",">>) ELSE m)

json5MarshalMap(m, v) ==
    LET m1 == WriteString([m EXCEPT !.depth = @ + 1], <<"{">>)
    IN  IF reflectLen(v) > 0 THEN WriteNewline(m1) ELSE m1

json5MarshalMapPost(m, v) ==
    LET m1 == [m EXCEPT !.depth = @ - 1]
        m2 == WriteString(IF reflectLen(v) > 0 THEN WriteIndent(m1, m1.depth) ELSE m1, <<"}">>)
    IN  IF m2.depth = 0 THEN WriteNewline(m2) ELSE m2

json5MarshalMapKey(m, kv) ==
    WriteString(json5WriteKey(WriteIndent(WriteComment(m, <<"/", "/", " ">>, kv.Help, m.depth),
                                          m.depth),
                              kv.Key),
                <<":", " ">>)

\* The index of an entry is compared with the length of the value as it is.
LastIndex(mv, kvs) == reflectLen(mv) - 1

\* MarshalMapValuePost, i counted from 0: the index of the entry among the
\* entries is compared with reflectutil.Len of the value.
json5MarshalMapValuePost(m, mv, kvs, i) ==
    WriteNewline(IF i # LastIndex(mv, kvs) \/ ~m.json THEN WriteString(m, <<",">>) ELSE m)

RECURSIVE json5Marshal(_, _)
RECURSIVE json5Elems(_, _, _)
RECURSIVE json5MapEntries(_, _, _, _)

\* The loop of the list case of reflectutil.Marshal, from element i on.
json5Elems(m, l, i) ==
    IF m.err # "" \/ i > Len(l.elems) THEN m
    ELSE LET m1 == json5Marshal(json5MarshalListElem(m), l.elems[i])
         IN  IF m1.err # "" THEN m1
             ELSE json5Elems(json5MarshalListElemPost(m1, l, i - 1), l, i + 1)

\* The loop of the map and struct cases of reflectutil.Marshal, from entry
\* i on: the marshaler is a NilMarshaler, so that no entry is left out.
json5MapEntries(m, mv, kvs, i) ==
    IF m.err # "" \/ i > Len(kvs) THEN m
    ELSE LET m1 == json5Marshal(json5MarshalMapKey(m, kvs[i]), kvs[i].Value)
         IN  IF m1.err # "" THEN m1
             ELSE json5MapEntries(json5MarshalMapValuePost(m1, mv, kvs, i - 1), mv, kvs, i + 1)

\* reflectutil.Marshal with the marshaler of package json5.
json5Marshal(m, val) ==
    IF m.err # "" THEN m
    ELSE CASE val.k = "bool" -> MarshalBool(m, val.b)
           [] val.k \in {"int", "int64"} -> MarshalNumber(m, IntValue(val.n))
           [] val.k = "nan" -> json5MarshalNaN(m)
           [] val.k = "inf" -> json5MarshalInf(m, val.sign)
           [] val.k = "float64" -> MarshalNumber(m, MakeFloat64(val))
           [] val.k = "string" -> json5MarshalString(m, val.s)
           [] val.k = "nil" -> MarshalNil(m)
           [] val.k = "list" ->
                LET ml == json5Elems(json5MarshalList(m, val), val, 1)
                IN  IF ml.err # "" THEN ml ELSE json5MarshalListPost(ml, val)
           [] val.k \in KindsOfMaps ->
                LET me == json5MapEntries(json5MarshalMap(m, val), val, json5Entries(val), 1)
                IN  IF me.err # "" THEN me ELSE json5MarshalMapPost(me, val)
           [] OTHER -> [m EXCEPT !.err = "cannot marshal: unsupported type"]

\* The loop over the tokens of MarshalNode and of MarshalNodePost: a
\* comment is left out in JSON mode, and so is a comma when skipComma
\* holds; the other tokens are written as they were read.
RECURSIVE writeTokens(_, _, _)
writeTokens(m, toks, skipComma) ==
    IF toks = <<>> THEN m
    ELSE IF m.json /\ \/ Head(toks).Type \in {TokenComment, TokenInlineComment}
                      \/ Head(toks).Type = TokenComma /\ skipComma
    THEN writeTokens(m, Tail(toks), skipComma)
    ELSE IF Head(toks).Type = TokenWhitespace
    THEN IF m.reformat THEN writeTokens(m, Tail(toks), skipComma)
         ELSE writeTokens(WriteString([m EXCEPT !.newline = FALSE], Head(toks).Raw),
                          Tail(toks), skipComma)
    ELSE IF Head(toks).Type = TokenNewline
    THEN writeTokens(WriteString(WriteString([m EXCEPT !.newline = TRUE], m.prefix),
                                 Head(toks).Raw),
                     Tail(toks), skipComma)
    ELSE writeTokens(WriteString([(IF m.newline /\ m.reformat
                                   THEN WriteIndent(m, m.depth) ELSE m)
                                     EXCEPT !.newline = FALSE],
                                 Head(toks).Raw),
                     Tail(toks), skipComma)

\* marshaler.MarshalNode
json5MarshalNode(m, node) ==
    LET m1 == writeTokens(m, node.Tokens, FALSE)
    IN  IF node.Type \in {NodeMap, NodeList} THEN [m1 EXCEPT !.depth = @ + 1] ELSE m1

\* marshaler.MarshalNodePost: last is the last token of the suffix that is
\* not trivia; in JSON mode the commas of a suffix that does not end with a
\* comma are left out.
json5MarshalNodePost(m, node) ==
    LET m1 == IF node.Type \in {NodeMap, NodeList} THEN [m EXCEPT !.depth = @ - 1] ELSE m
        rest == SelectSeq(node.Suffix, LAMBDA tok : tok.Type \notin Trivia)
    IN  writeTokens(m1, node.Suffix, rest # <<>> /\ Last(rest).Type # TokenComma)

RECURSIVE nodeMarshal(_, _)
RECURSIVE nodeMarshalAll(_, _, _)

\* Node.Marshal on the siblings from the i-th on.
nodeMarshalAll(m, nodes, i) ==
    IF i > Len(nodes) THEN m ELSE nodeMarshalAll(nodeMarshal(m, nodes[i]), nodes, i + 1)

\* Node.Marshal on a node: MarshalNode, the children, MarshalNodePost.
nodeMarshal(m, node) ==
    json5MarshalNodePost(nodeMarshalAll(json5MarshalNode(m, node), node.Children, 1), node)

(***************************************************************************)
Point == StructOf(<<Field(<<"X">>, <<>>, Int64Of(7))>>)

FreshScalars == {Int64Of(7), StringOf(<<"s">>), BoolOf(TRUE)}

SeqsUpTo(S, n) == UNION {[1 .. k -> S] : k \in 0 .. n}

ContainersOf(S) ==
    {ListOf("interface", l) : l \in SeqsUpTo(S, MaxElems)}
        \cup {MapOf(<<>>, <<>>)}
        \cup {MapOf(<<Key(<<"k">>, "")>>, <<v>>) : v \in S}

Values1 == FreshScalars \cup {Point} \cup ContainersOf(FreshScalars \cup {Point})

Values2 == Values1 \cup ContainersOf(Values1) \cup {ListOf("struct", <<Point, Point>>)}

\* Records whose fields that make tables are declared before, and between,
\* the fields that are values:
\*     struct { T Point; B int64; M map[string]interface{}; A string }
\*     struct { In struct { T Point; A int64 }; Z bool }
\*     struct { L []Point; N []interface{}; T Point; V int64 }
FreshRecords ==
    {StructOf(<<Field(<<"T">>, <<>>, Point), Field(<<"B">>, <<>>, Int64Of(7)),
                Field(<<"M">>, <<>>, MapOf(<<Key(<<"k">>, "")>>, <<BoolOf(TRUE)>>)),
                Field(<<"A">>, <<>>, StringOf(<<"s">>))>>),
     StructOf(<<Field(<<"I", "n">>, <<>>,
                      StructOf(<<Field(<<"T">>, <<>>, Point),
                                 Field(<<"A">>, <<>>, Int64Of(7))>>)),
                Field(<<"Z">>, <<>>, BoolOf(TRUE))>>),
     StructOf(<<Field(<<"L">>, <<>>, ListOf("struct", <<Point, Point>>)),
                Field(<<"N">>, <<>>, ListOf("interface", <<Int64Of(7)>>)),
                Field(<<"T">>, <<>>, Point),
                Field(<<"V">>, <<>>, Int64Of(7))>>)}

\* Values with a nil pointer or a nil interface: as the entry of a map, as
\* the field of a record, as an element of a list, below a table, and as the
\* document.
FreshNils ==
    {MapOf(<<Key(<<"a">>, "")>>, <<NilValue>>),
     MapOf(<<Key(<<"b">>, ""), Key(<<"a">>, "")>>, <<NilValue, Int64Of(7)>>),
     StructOf(<<Field(<<"P", "t">>, <<>>, NilValue)>>),
     MapOf(<<Key(<<"a">>, "")>>, <<ListOf("interface", <<NilValue>>)>>),
     MapOf(<<Key(<<"a">>, "")>>, <<ListOf("interface", <<Int64Of(7), NilValue>>)>>),
     MapOf(<<Key(<<"a">>, "")>>, <<MapOf(<<Key(<<"k">>, "")>>, <<NilValue>>)>>),
     NilValue}

\* Finite floats: 5, 0, -0, -5, 1.5, 120, 100000, 1000000, 12345678,
\* 0.0001, 0.00001, 0.000125 and 1.25e21.
FreshFloats ==
    {Float64Of(FALSE, <<"5">>, 1), Float64Of(FALSE, <<>>, 0), Float64Of(TRUE, <<>>, 0),
     Float64Of(TRUE, <<"5">>, 1), Float64Of(FALSE, <<"1", "5">>, 1),
     Float64Of(FALSE, <<"1", "2">>, 3), Float64Of(FALSE, <<"1">>, 6),
     Float64Of(FALSE, <<"1">>, 7),
     Float64Of(TRUE, <<"1", "2", "3", "4", "5", "6", "7", "8">>, 8),
     Float64Of(FALSE, <<"1">>, 0 - 3), Float64Of(FALSE, <<"1">>, 0 - 4),
     Float64Of(TRUE, <<"1", "2", "5">>, 0 - 3),
     Float64Of(FALSE, <<"1", "2", "5">>, 22)}

\* Documents that hold a float: as the entry of a map, as the field of a
\* record, as an element of a list.
FreshFloatDocs ==
    {MapOf(<<Key(<<"a">>, "")>>, <<v>>) : v \in FreshFloats}
        \cup {StructOf(<<Field(<<"X">>, <<>>, v)>>) : v \in FreshFloats}
        \cup {MapOf(<<Key(<<"a">>, "")>>, <<ListOf("interface", <<v, Int64Of(7)>>)>>) :
                 v \in FreshFloats}

FreshDocs ==
    {MapOf(<<Key(<<"a">>, "")>>, <<v>>) : v \in Values2}
        \cup FreshFloatDocs
        \cup {MapOf(<<Key(<<"b">>, ""), Key(<<"a">>, "")>>, <<v, w>>) :
                 v \in Values1, w \in FreshScalars \cup {MapOf(<<>>, <<>>)}}
        \cup {MapOf(<<>>, <<>>)}
        \cup {StructOf(<<Field(<<"P", "t">>, <<>>, v)>>) : v \in Values1}
        \cup FreshRecords
        \cup FreshNils

\* The first index of s that holds an element of S, Len(s) + 1 when none does.
RECURSIVE IndexAny(_, _, _)
IndexAny(s, S, i) ==
    IF i > Len(s) \/ s[i] \in S THEN i ELSE IndexAny(s, S, i + 1)

RECURSIVE TrimZerosLeft(_, _)
TrimZerosLeft(digits, dp) ==
    IF digits # <<>> /\ Head(digits) = "0" THEN TrimZerosLeft(Tail(digits), dp - 1)
    ELSE [digits |-> digits, dp |-> IF digits = <<>> THEN 0 ELSE dp]

RECURSIVE TrimZerosRight(_)
TrimZerosRight(digits) ==
    IF digits # <<>> /\ Last(digits) = "0" THEN TrimZerosRight(Front(digits))
    ELSE digits

\* The float64 that a decimal literal denotes (big.ParseFloat, then
\* constant.Float64Val), for a literal of few digits: sign, digits, point,
\* exponent.
ReadFloat(text) ==
    LET neg == text # <<>> /\ Head(text) = "-"
        body == IF text # <<>> /\ Head(text) \in {"-", "+"} THEN Tail(text) ELSE text
        e == IndexAny(body, {"e", "E"}, 1)
        mant == SubSeq(body, 1, e - 1)
        expo == SubSeq(body, e + 1, Len(body))
        exp == IF expo = <<>> THEN 0
               ELSE IF Head(expo) = "-" THEN 0 - ParseDigits(Tail(expo), 10, 0)
               ELSE IF Head(expo) = "+" THEN ParseDigits(Tail(expo), 10, 0)
               ELSE ParseDigits(expo, 10, 0)
        pt == IndexAny(mant, {"."}, 1)
        t == TrimZerosLeft(TrimZerosRight(SubSeq(mant, 1, pt - 1)
                                              \o SubSeq(mant, pt + 1, Len(mant))),
                           pt - 1 + exp)
    IN  Float64Of(neg, t.digits, t.dp)

\* reflectutil.DeepEqual of a decoded value and a value of the model.
RECURSIVE DeepEqual(_, _)
DeepEqual(lhs, rhs) ==
    CASE rhs.k = "float64" ->
            lhs.k = "float" /\ ReadFloat(lhs.s) = MakeFloat64(rhs)
      [] lhs.k # rhs.k -> FALSE
      [] rhs.k = "list" ->
            /\ Len(lhs.l) = Len(rhs.elems)
            /\ \A i \in 1 .. Len(lhs.l) : DeepEqual(lhs.l[i], rhs.elems[i])
      [] rhs.k = "map" ->
            /\ Cardinality(DOMAIN lhs.m) = Len(rhs.keys)
            /\ \A key \in DOMAIN lhs.m :
                  \E i \in 1 .. Len(rhs.keys) :
                      /\ key = KeyStr(rhs.keys[i].text)
                      /\ DeepEqual(lhs.m[key], rhs.elems[i])
      [] OTHER -> lhs = rhs

(***************************************************************************)
(* Encoding a value and decoding the text into an interface{}.             *)
(***************************************************************************)
\* Records for the JSON5 encoder, with fields that are not rendered:
\*     struct { Exported int; unexported int }
\*     struct { A int; B int `json5:"-"`; C bool }
\*     struct { A int; B string; C int `json5:"-"` }
\*     struct { hidden int; URLPath string; Pt *int }            Pt nil
\*     struct { A int `help:"the a"`; In struct { B []interface{}; c int } }
Json5Records ==
    {StructOf(<<Field(<<"E", "x", "p", "o", "r", "t", "e", "d">>, <<>>, Int64Of(1)),
                Field(<<"u", "n", "e", "x", "p", "o", "r", "t", "e", "d">>, <<>>, Int64Of(2))>>),
     StructOf(<<Field(<<"A">>, <<>>, Int64Of(1)),
                TaggedField(<<"B">>, Int64Of(2), TRUE, <<>>),
                Field(<<"C">>, <<>>, BoolOf(TRUE))>>),
     StructOf(<<Field(<<"A">>, <<>>, Int64Of(1)),
                Field(<<"B">>, <<>>, StringOf(<<"s">>)),
                TaggedField(<<"C">>, Int64Of(2), TRUE, <<>>)>>),
     StructOf(<<Field(<<"h", "i", "d", "d", "e", "n">>, <<>>, Int64Of(1)),
                Field(<<"U", "R", "L", "P", "a", "t", "h">>, <<>>, StringOf(<<"s">>)),
                Field(<<"P", "t">>, <<>>, NilValue)>>),
     StructOf(<<TaggedField(<<"A">>, Int64Of(1), FALSE, <<<<"t", "h", "e", " ", "a">>>>),
                Field(<<"I", "n">>, <<>>,
                      StructOf(<<Field(<<"B">>, <<>>,
                                       ListOf("interface", <<Int64Of(7), NilValue>>)),
                                 Field(<<"c">>, <<>>, Int64Of(1))>>))>>)}

\* Values for the JSON5 encoder: maps, lists, strings and keys that need an
\* escape or quotes, NaN and the infinities.
Json5Maps ==
    {MapOf(<<>>, <<>>),
     MapOf(<<Key(<<"a">>, "")>>, <<ListOf("interface", <<>>)>>),
     MapOf(<<Key(<<"b">>, ""), Key(<<"a">>, "")>>,
           <<ListOf("interface", <<Int64Of(7), StringOf(<<"s">>)>>),
             MapOf(<<Key(<<"k">>, "")>>, <<BoolOf(TRUE)>>)>>),
     MapOf(<<Key(<<"a">>, "")>>, <<ListOf("interface", <<ListOf("interface", <<Int64Of(7)>>),
                                                         MapOf(<<>>, <<>>)>>)>>),
     MapOf(<<Key(<<"a">>, "")>>, <<StringOf(<<"x", "\"", "'", "\n", "\\">>)>>),
     MapOf(<<Key(<<"a", " ", "b">>, "")>>, <<Int64Of(7)>>),
     MapOf(<<Key(<<"a">>, "")>>, <<NaNValue>>),
     MapOf(<<Key(<<"a">>, "")>>, <<InfValue(1)>>),
     MapOf(<<Key(<<"a">>, "")>>, <<ListOf("interface", <<InfValue(0 - 1)>>)>>),
     ListOf("interface", <<Int64Of(7), Float64Of(FALSE, <<"5">>, 1)>>),
     MapOf(<<Key(<<"a">>, "")>>, <<NilValue>>)}

Json5Values == Json5Records \cup Json5Maps \cup FreshFloatDocs

\* JSON5 texts that use what JSON has not: an unquoted key, a trailing
\* comma, single quotes, a hexadecimal number, a sign, a number that starts
\* or ends with its point, NaN, Infinity, comments; and a text of plain JSON.
Json5Texts ==
    {<<"{", "a", ":", "1", ",", "}">>,
     <<"{", "'", "a", "'", ":", " ", "'", "x", "'", "}">>,
     <<"[", "0", "x", "1", "F", ",", " ", "+", "1", ",", "\n", "]">>,
     <<"[", ".", "5", ",", "5", ".", "]">>,
     <<"{", "\"", "a", "\"", ":", "N", "a", "N", ",", "\"", "b", "\"", ":", "-",
       "I", "n", "f", "i", "n", "i", "t", "y", "}">>,
     <<"/", "/", " ", "c", "\n", "{", "\"", "a", "\"", ":", " ", "1", " ", "/", "*", "d", "*", "/",
       ",", " ", "/", "/", "e", "\n", "}", "\n">>,
     <<"{", "\"", "a", "\"", ":", " ", "[", "1", ",", " ", "2", "]", ",", " ",
       "\"", "b", "\"", ":", " ", "\"", "x", "\"", "}">>,
     <<"[", "1", ",", "]">>}

FreshInit ==
    /\ lexer = NewLexer(<<>>, "lex")
    /\ parser = [NewParse EXCEPT !.pc = "idle"]
    /\ output = NoOutput
    /\ env = NoEnv
    /\ \/ /\ input = <<>>
          /\ \E v \in FreshDocs : dest = [NoDest EXCEPT !.pc = "encode", !.value = v]
       \/ /\ input = <<>>
          /\ \E v \in Json5Values, json \in BOOLEAN :
                dest = [NoDest EXCEPT !.pc = "encode5", !.value = v, !.json = json]
       \/ /\ input \in Json5Texts
          /\ dest = [NoDest EXCEPT !.pc = "text5", !.value = NilValue]

\* Encoder.Encode of the value; the decoder is given the text when the
\* encoder returns no error.
FreshEncode ==
    /\ dest.pc = "encode"
    /\ \E m \in {reflectMarshal(NewEncoder, dest.value)} :
           /\ dest' = [dest EXCEPT !.pc = IF m.err = "" THEN "encoded" ELSE "failed",
                                   !.err = m.err]
           /\ input' = m.out
           /\ lexer' = NewLexer(m.out, "lex")
           /\ parser' = IF m.err = "" THEN NewParse ELSE parser
    /\ UNCHANGED <<output, env>>

\* Encode of the encoder of package json5, with the option JSON() when
\* dest.json holds.
Json5Encode ==
    /\ dest.pc = "encode5"
    /\ \E m \in {json5Marshal(json5NewEncoder(dest.json), dest.value)} :
           /\ dest' = [dest EXCEPT !.pc = IF m.err = "" THEN "encoded5" ELSE "failed5",
                                   !.err = m.err]
           /\ input' = m.out
    /\ UNCHANGED <<lexer, parser, output, env>>

\* Decode of the decoder of package json5 into a pointer to an interface{}:
\* the parser on the tokens of the lexer, then the tree bound to the
\* destination.  The tree is kept for the encoder.
Json5Decode ==
    /\ dest.pc \in {"encoded5", "text5"}
    /\ \E r \in {parserParse(newLexer(input))} :
          /\ parser' = [parser EXCEPT !.returned = r.err = <<>>, !.root = <<r.node>>]
          /\ \E u \in {IF r.err # <<>> THEN Failed(NilValue, "syntax error")
                        ELSE unmarshal(NilValue, r.node, FALSE)} :
                output' = [output EXCEPT !.decoded = TRUE, !.value = u.v, !.err = u.err]
    /\ dest' = [dest EXCEPT !.pc = "decoded5"]
    /\ UNCHANGED <<input, lexer, env>>

\* Encode of the tree that the parser returned, by an encoder with or
\* without the option JSON().
Json5Replay ==
    /\ dest.pc = "decoded5"
    /\ parser.returned
    /\ \E json \in BOOLEAN :
          /\ dest' = [dest EXCEPT !.pc = "replayed5", !.json = json]
          /\ \E m \in {nodeMarshal(json5NewEncoder(json), parser.root[1])} :
                output' = [output EXCEPT !.written = TRUE, !.text = m.out]
    /\ UNCHANGED <<input, lexer, parser, env>>

FreshNext ==
    \/ FreshEncode \/ TomlLexerNext \/ TomlParse \/ TomlDecode
    \/ Json5Encode \/ Json5Decode \/ Json5Replay

SpecFresh == FreshInit /\ [][FreshNext]_vars

(***************************************************************************)
(* A line-by-line reading of the documents of the model, independent of    *)
(* the parser: the kind of each line, the key path written on it, and the  *)
(* fully-qualified path it defines (the path of the enclosing table, with  *)
(* the index of the current entry after each array of tables).             *)
(***************************************************************************)
RECURSIVE SplitLines(_, _)
SplitLines(text, cur) ==
    IF text = <<>> THEN (IF cur = <<>> THEN <<>> ELSE <<cur>>)
    ELSE IF Head(text) = "\n" THEN <<cur>> \o SplitLines(Tail(text), <<>>)
    ELSE SplitLines(Tail(text), Append(cur, Head(text)))

RECURSIVE TakeUntil(_, _)
TakeUntil(text, S) ==
    IF text = <<>> \/ Head(text) \in S THEN <<>>
    ELSE <<Head(text)>> \o TakeUntil(Tail(text), S)

LineKind(c) ==
    IF Len(c) >= 2 /\ c[1] = "[" /\ c[2] = "[" THEN "array"
    ELSE IF Len(c) >= 1 /\ c[1] = "[" THEN "table"
    ELSE IF Len(c) >= 1 /\ c[1] \in Lower /\ \E i \in 1 .. Len(c) : c[i] = "="
    THEN "assign"
    ELSE "other"

LineKeyCol(c) ==
    CASE LineKind(c) = "array" -> 3 [] LineKind(c) = "table" -> 2 [] OTHER -> 1

LineWritten(c) ==
    LET segs == Split(TakeUntil(SubSeq(c, LineKeyCol(c), Len(c)), {" ", "=", "]"}), <<>>)
    IN  [i \in 1 .. Len(segs) |-> KeyStr(segs[i])]

\* The non-final segments of a header, each array of tables among them
\* followed by the index of its current entry.
RECURSIVE RefResolve(_, _, _, _)
RefResolve(segs, i, acc, count) ==
    IF i > Len(segs) - 1 THEN acc
    ELSE LET q == Append(acc, segs[i])
         IN  RefResolve(segs, i + 1,
                        IF q \in DOMAIN count THEN Append(q, KeyIdx(count[q] - 1)) ELSE q,
                        count)

RECURSIVE RefScan(_, _, _, _)
RefScan(lines, i, cur, count) ==
    IF i > Len(lines) THEN <<>>
    ELSE LET c == lines[i]
             kind == LineKind(c)
             w == LineWritten(c)
             base == Append(RefResolve(w, 1, <<>>, count), w[Len(w)])
             n == IF base \in DOMAIN count THEN count[base] ELSE 0
             fq == CASE kind = "assign" -> cur \o w
                     [] kind = "table" -> base
                     [] kind = "array" -> Append(base, KeyIdx(n))
                     [] OTHER -> <<>>
             count1 == IF kind = "array"
                       THEN [x \in DOMAIN count \cup {base} |->
                                IF x = base THEN n + 1 ELSE count[x]]
                       ELSE count
             cur1 == IF kind \in {"table", "array"} THEN fq ELSE cur
         IN  <<[kind |-> kind, written |-> w, fq |-> fq, table |-> cur,
                pos |-> [line |-> i, col |-> LineKeyCol(c)]]>>
                \o RefScan(lines, i + 1, cur1, count1)

Ref == RefScan(SplitLines(input, <<>>), 1, <<>>, [x \in {} |-> 0])

\* Parse has returned, and had gone through every line before line j.
ParsedTo(j) ==
    /\ parser.pc = "done"
    /\ parser.returned \/ parser.err.cursor.line >= j

\* Parse has failed at line j with a DuplicateKeyError that records pos.
DuplicateAt(j, pos) ==
    /\ ~parser.returned
    /\ parser.err.k = "DuplicateKeyError"
    /\ parser.err.cursor.line = j
    /\ parser.err.at = pos

(***************************************************************************)
(* Properties of the TOML pipeline.                                        *)
(***************************************************************************)

\* C1: for every document the parser accepts, the replay encoding of the
\* returned tree is the input, rune for rune.
C1_ReplayIsInput ==
    output.written => output.text = input

\* The runes that were unread and not read again, oldest first.
Pending(l) ==
    [k \in 1 .. l.rlen |-> l.buf[inc(l.widx, 0 - (l.rlen - k + 1)) + 1].r]

\* The part of the input the lexer has taken from its reader.
Taken == SubSeq(input, 1, Len(input) - Len(lexer.Input))

\* C2 (amended): the raw texts of the tokens emitted so far, then the token
\* under construction, then the runes unread and not read again, are the
\* part of the input taken from the reader; the tokens are the whole input
\* once the end-of-input token is emitted; and the tokens the parser holds,
\* with the half of a double bracket it put back, are the tokens it received.
C2_TokensConserveInput ==
    /\ lexer.panic = ""
    /\ RawOf(lexer.tokens) \o (IF lexer.closed THEN <<>> ELSE lexer.token)
          \o Pending(lexer) = Taken
    /\ lexer.closed /\ Last(lexer.tokens).type = TokenEOF
          => RawOf(lexer.tokens) = input
    /\ parser.p.got \o RawOf(parser.p.prev)
          = RawOf(SubSeq(lexer.tokens, 1, parser.p.i))

\* C2 (as stated): once the lexer has stopped, the raw texts of its tokens
\* are the input.
C2_TokensAreInput ==
    lexer.closed => RawOf(lexer.tokens) = input

\* C2, witness: a whole document with a double bracket that the parser split
\* went through the lexer, runes were unread on the way.
C2_Witness ==
    /\ lexer.closed /\ Last(lexer.tokens).type = TokenEOF
    /\ parser.pc = "done" /\ parser.returned
    /\ \E i \in 1 .. Len(lexer.tokens) - 1 :
          /\ lexer.tokens[i].type = TokenNumber
          /\ lexer.tokens[i + 1].type = TokenDoubleRSquare
    /\ \E i \in 1 .. Len(lexer.tokens) : lexer.tokens[i].type = TokenNewline
    /\ RawOf(lexer.tokens) = input

\* C3: an assignment whose fully-qualified key path was assigned by an
\* earlier line fails with a DuplicateKeyError that records the position of
\* the first of these assignments.
C3_DuplicateAssignment ==
    parser.pc = "done" => \A j \in 1 .. Len(Ref) : \A i \in 1 .. j - 1 :
        /\ Ref[i].kind = "assign" /\ Ref[j].kind = "assign"
        /\ Ref[i].fq = Ref[j].fq
        /\ \A h \in 1 .. i - 1 : ~(Ref[h].kind = "assign" /\ Ref[h].fq = Ref[i].fq)
        /\ ParsedTo(j)
        => DuplicateAt(j, Ref[i].pos)

\* C4 (amended): a second "[p]" header for the same fully-qualified path
\* (each array of tables on the way counted with the index of its current
\* entry) fails with a DuplicateKeyError that records the position of the
\* first header; a document of one "[p]" header is accepted.
C4_TableHeaderOnce ==
    parser.pc = "done" =>
    /\ \A j \in 1 .. Len(Ref) : \A i \in 1 .. j - 1 :
          /\ Ref[i].kind = "table" /\ Ref[j].kind = "table"
          /\ Ref[i].fq = Ref[j].fq
          /\ ParsedTo(j)
          => DuplicateAt(j, Ref[i].pos)
    /\ Len(Ref) = 1 /\ Ref[1].kind = "table" => parser.returned

\* C4 (as stated): a second "[p]" header with the same path p as written
\* fails with a DuplicateKeyError that records the position of the first.
C4_TableHeaderOncePerWrittenPath ==
    parser.pc = "done" => \A j \in 1 .. Len(Ref) : \A i \in 1 .. j - 1 :
        /\ Ref[i].kind = "table" /\ Ref[j].kind = "table"
        /\ Ref[i].written = Ref[j].written
        /\ \A h \in 1 .. i - 1 : ~(Ref[h].kind = "table" /\ Ref[h].written = Ref[i].written)
        /\ ParsedTo(j)
        => DuplicateAt(j, Ref[i].pos)

\* C4, witness: Parse has failed on a second "[p]" header that follows its
\* first one after other lines.
C4_Witness ==
    parser.pc = "done" /\ \E j \in 1 .. Len(Ref) : \E i \in 1 .. j - 2 :
        /\ Ref[i].kind = "table" /\ Ref[j].kind = "table"
        /\ Ref[i].fq = Ref[j].fq
        /\ ParsedTo(j)
        /\ DuplicateAt(j, Ref[i].pos)

\* The value bound at a path of the decoded value, NilValue when there is
\* none.
RECURSIVE ValueAt(_, _)
ValueAt(v, path) ==
    IF path = <<>> THEN v
    ELSE IF v.k = "map" /\ Head(path) \in DOMAIN v.m
    THEN ValueAt(v.m[Head(path)], Tail(path))
    ELSE IF v.k = "list" /\ Head(path).int /\ Head(path).n < Len(v.l)
    THEN ValueAt(v.l[Head(path).n + 1], Tail(path))
    ELSE NilValue

\* The lines that are "[[p]]" headers with the path of line j.
SameArray(r, j) ==
    {i \in 1 .. Len(r) : r[i].kind = "array" /\ Front(r[i].fq) = Front(r[j].fq)}

\* The integer written at the end of an assignment line.
LineInt(c) == [k |-> "int64", n |-> DigitVal(Last(c))]

\* The path up to a non-final segment of the key of line j is defined by the
\* earlier line i: as a value or through a dotted key, or as a table or an
\* array of tables by a header.
DefinesPrefixOf(i, j) ==
    /\ Ref[j].kind = "assign"
    /\ \E n \in 1 .. Len(Ref[j].written) - 1 :
          LET q == Ref[j].table \o SubSeq(Ref[j].written, 1, n)
          IN  \/ Ref[i].kind = "assign" /\ Ref[i].fq = q
              \/ Ref[i].kind = "table" /\ Ref[i].fq = q
              \/ Ref[i].kind = "array" /\ Front(Ref[i].fq) = q

\* A document with a violation: a closing bracket that closes nothing, or a
\* dotted key through a path that an earlier line defined.
HasViolation ==
    \/ \E j \in 1 .. Len(Ref) : SplitLines(input, <<>>)[j] = <<"]">>
    \/ \E j \in 1 .. Len(Ref) : \E i \in 1 .. j - 1 : DefinesPrefixOf(i, j)

\* C6: an assignment with a dotted key fails with a DuplicateKeyError when
\* the path up to one of its non-final segments is already defined as a
\* value, an inline table or an explicit table, in the same table body or
\* before a header.
C6_DottedKeyThroughDefinedPath ==
    parser.pc = "done" => \A j \in 1 .. Len(Ref) : \A i \in 1 .. j - 1 :
        DefinesPrefixOf(i, j) /\ ParsedTo(j)
        => /\ ~parser.returned
           /\ parser.err.k = "DuplicateKeyError"
           /\ parser.err.cursor.line = j
           /\ parser.err.kind \in {"key", "table", "array"}

\* C5: after a first "[[p]]" header every later "[[p]]" header is accepted;
\* the key of the k-th of them (from 0) carries the path p followed by k; and
\* the value decoded at p from a document without violation is a list of as
\* many tables as there are "[[p]]" headers, the k-th of them holding what
\* the lines after the k-th header assign.
C5_ArrayOfTables ==
    parser.pc = "done" =>
    LET r == Ref
        lines == SplitLines(input, <<>>)
    IN  /\ \A j \in 1 .. Len(r) :
              r[j].kind = "array" /\ r[1].kind = "array"
              => parser.returned \/ parser.err.cursor.line # j
        /\ \A j \in 1 .. Len(r) :
              r[j].kind = "array" /\ ParsedTo(j + 1)
              => /\ Last(r[j].fq) = KeyIdx(Cardinality({i \in SameArray(r, j) : i < j}))
                 /\ \E n \in 1 .. Len(parser.root) :
                       /\ parser.root[n].Position = r[j].pos
                       /\ parser.root[n].Value = PathValue(r[j].fq)
        /\ output.decoded /\ parser.returned /\ ~HasViolation
              => /\ output.err = ""
                 /\ \A j \in 1 .. Len(r) :
                       r[j].kind = "array"
                       => /\ ValueAt(output.value, Front(r[j].fq)).k = "list"
                          /\ Len(ValueAt(output.value, Front(r[j].fq)).l)
                                = Cardinality(SameArray(r, j))
                          /\ ValueAt(output.value, r[j].fq).k = "map"
                 /\ \A i \in 1 .. Len(r) :
                       r[i].kind = "assign" /\ Last(lines[i]) \in Digits
                       => ValueAt(output.value, r[i].fq) = LineInt(lines[i])

\* C5, witness: a document with three "[[p]]" headers and an assignment
\* under the second of them is decoded.
C5_Witness ==
    /\ output.decoded /\ parser.returned /\ ~HasViolation /\ output.err = ""
    /\ \E j \in 1 .. Len(Ref) :
          /\ Ref[j].kind = "array"
          /\ Cardinality(SameArray(Ref, j)) = 3
    /\ \E i \in 1 .. Len(Ref) :
          /\ Ref[i].kind = "assign"
          /\ Len(Ref[i].fq) = 3 /\ Ref[i].fq[2] = KeyIdx(1)
          /\ ValueAt(output.value, Ref[i].fq).k = "int64"

\* C7: a parse that fails returns no document and an error with a line and
\* a column, and no parse of a document with a violation succeeds.
C7_ErrorsAreReported ==
    parser.pc = "done" =>
        /\ ~parser.returned =>
              /\ parser.root = <<>> \/ parser.err.k # ""
              /\ parser.err.k # ""
              /\ parser.err.cursor.line >= 1 /\ parser.err.cursor.col >= 1
        /\ HasViolation => ~parser.returned


(***************************************************************************)
(* Properties of the environment overlay.                                  *)
(***************************************************************************)
Defined(names) == {n \in names : n \in EnvNames /\ env.environ[n].defined}

\* The candidate names of a field without an env key.
Candidates(key) == {env.names[i] \o <<"_">> \o key : i \in 1 .. Len(env.names)}

PathOf(val) == FieldByName(val, <<"P", "a", "t", "h">>)
ShellOf(val) == FieldByName(val, <<"S", "h", "e", "l", "l">>)
PortOf(val) == FieldByName(val, <<"P", "o", "r", "t">>)

\* C9: when the overlay applies to a field and a variable of the field is
\* defined, the field holds the parsed value of the variable after Decode,
\* whatever the files assigned to it: Path holds the entries of PATH; with
\* the automatic overlay, Shell holds the value of one of its defined
\* candidates and Port the number one of its defined candidates spells.
C9_EnvironmentWins ==
    dest.pc = "done" =>
        /\ env.environ[PATH].defined =>
              /\ dest.err # PanicIndex
              /\ PathOf(dest.value).elems =
                    [i \in 1 .. Len(SplitList(env.environ[PATH].value, <<>>)) |->
                        StringOf(SplitList(env.environ[PATH].value, <<>>)[i])]
        /\ env.automatic /\ dest.err = "" =>
              /\ Defined(Candidates(<<"S", "H", "E", "L", "L">>)) # {} =>
                    \E n \in Defined(Candidates(<<"S", "H", "E", "L", "L">>)) :
                        ShellOf(dest.value) = StringOf(env.environ[n].value)
              /\ Defined(Candidates(<<"P", "O", "R", "T">>)) # {} =>
                    \E n \in Defined(Candidates(<<"P", "O", "R", "T">>)) :
                        PortOf(dest.value) = IntOf(ParseInt(env.environ[n].value).n)

\* A value found for a variable of an int field that is not a number.
FoundUnparsable ==
    /\ env.environ[BOA_PORT].defined
    /\ \A i \in 1 .. Len(env.environ[BOA_PORT].value) :
          env.environ[BOA_PORT].value[i] \notin Digits

\* A key of a map the files left in the destination cannot be marshalled.
KeyUnmarshallable ==
    \E i \in 1 .. Len(dest.file.fields) :
        /\ dest.file.fields[i].Value.k = "map"
        /\ \E j \in 1 .. Len(dest.file.fields[i].Value.keys) :
              dest.file.fields[i].Value.keys[j].err # ""

AllNotFound == \A n \in EnvNames : ~env.environ[n].defined

Returned(err) == dest.pc = "done" /\ dest.err = err

\* C10: the overlay returns an error only when a variable was found whose
\* value cannot be parsed into the type of its field, or when a key of a
\* map of the destination cannot be marshalled to text; when no variable is
\* defined and every map key can be marshalled, it returns no error.
C10_OverlayErrors ==
    dest.pc = "done" =>
        /\ dest.err \notin {"", PanicIndex} => FoundUnparsable \/ KeyUnmarshallable
        /\ AllNotFound /\ ~KeyUnmarshallable => dest.err = ""

\* C10 as stated: an error only for a found value that cannot be parsed, and
\* none when no variable is defined.
C10_OnlyUnparsableValues ==
    dest.pc = "done" =>
        /\ dest.err \notin {"", PanicIndex} => FoundUnparsable
        /\ AllNotFound => dest.err = ""

C10_Witness ==
    /\ Returned("strconv.ParseInt: invalid syntax")
    /\ FoundUnparsable
    /\ env.automatic

(***************************************************************************)
(* Properties of the encoder of values.                                    *)
(***************************************************************************)
RECURSIVE HasRecord(_)
HasRecord(v) ==
    CASE v.k = "struct" -> TRUE
      [] v.k \in {"list", "map"} -> \E i \in 1 .. Len(v.elems) : HasRecord(v.elems[i])
      [] OTHER -> FALSE

\* C8: the encoder writes every value of the model without an error, the
\* decoder reads the text without an error, and the value it binds to an
\* interface{} is deeply equal to the value encoded when that value holds no
\* record (a record is read back as a map).
C8_FreshRoundTrip ==
    /\ dest.pc # "failed"
    /\ dest.pc = "encoded" /\ output.decoded =>
          /\ output.err = ""
          /\ ~HasRecord(dest.value) => DeepEqual(output.value, dest.value)

(***************************************************************************)
(* reflectutil: binding a tree to a typed destination.  A reflect.Value is *)
(* a record of its type and what it holds.  The types of the model are the *)
(* integer kinds of 8, 16 and 64 bits, float32 and float64, string, bool,  *)
(* interface{}, slices, arrays, maps with string keys and structs; the     *)
(* naming convention is the one of the TOML decoder, SnakeCase.  A path    *)
(* is a sequence of components, Dot(name) for ".name" and Bracket(e) for   *)
(* "[e]".  Every error records in loc the location of the destination     *)
(* value that was being bound when it was made: the code has no such       *)
(* field, loc is there for the properties to compare the paths against.    *)
(***************************************************************************)
IntKind(bits) == [kind |-> "int", bits |-> bits]
UintKind(bits) == [kind |-> "uint", bits |-> bits]
FloatKind(bits) == [kind |-> "float", bits |-> bits]
StringKind == [kind |-> "string"]
BoolKind == [kind |-> "bool"]
InterfaceKind == [kind |-> "interface"]
SliceOf(elem) == [kind |-> "slice", elem |-> elem]
ArrayOf(elem, len) == [kind |-> "array", elem |-> elem, len |-> len]
MapTo(elem) == [kind |-> "map", elem |-> elem]
StructType(fields) == [kind |-> "struct", fields |-> fields]
StructField(name, typ) == [Name |-> name, Type |-> typ]

ValueOf(typ, v) == [typ |-> typ, v |-> v]
FloatOf(c) == [k |-> "float", c |-> c]
StructValue(f) == [k |-> "struct", f |-> f]

\* An integer constant beyond 64 bits (an intVal of go/constant).
BigValue(sign) == [k |-> "big", sign |-> sign]

\* reflect.Zero
RECURSIVE Zero(_)
Zero(typ) ==
    CASE typ.kind \in {"int", "uint"} -> IntOf(0)
      [] typ.kind = "float" -> FloatOf(IntValue(0))
      [] typ.kind = "string" -> StringOf(<<>>)
      [] typ.kind = "bool" -> BoolOf(FALSE)
      [] typ.kind = "interface" -> NilValue
      [] typ.kind = "slice" -> ListValue(<<>>)
      [] typ.kind = "array" -> ListValue([i \in 1 .. typ.len |-> Zero(typ.elem)])
      [] typ.kind = "map" -> MapValue(NoValues)
      [] typ.kind = "struct" ->
            StructValue([i \in DOMAIN typ.fields |-> Zero(typ.fields[i].Type)])

\* reflect.MakeSlice(typ, l, l)
MakeSliceOf(typ, l) == ValueOf(typ, ListValue([i \in 1 .. l |-> Zero(typ.elem)]))

Dot(name) == [sep |-> ".", e |-> KeyStr(name)]
Bracket(e) == [sep |-> "[", e |-> e]

NoError == [kind |-> "nil"]
Errorf(msg, loc) == [kind |-> "error", msg |-> msg, loc |-> loc]
PanicError(msg, loc) == [kind |-> "panic", msg |-> msg, loc |-> loc]
\* encoding.LoadError: the closure target() gives the type of the value when
\* the path is empty.
LoadError(path, msg, loc) ==
    [kind |-> "LoadError", Target |-> [type |-> path = <<>>, path |-> path],
     msg |-> msg, loc |-> loc]

Bound(val) == [val |-> val, err |-> NoError]
Abort(val, err) == [val |-> val, err |-> err]

\* The closure newNodeErr of unmarshal.
newNodeErr(node, path, exp, loc) ==
    LoadError(path, <<"config has", node.Type, "but expected", exp>>, loc)

\* SetScalar with no error for a node of another type than the destination's.
scalarNodeSkipped(nodetype, exp, loc) == NoError

\* The closure newNodeErr of SetScalar.
scalarNodeErr(nodetype, exp, loc) ==
    Errorf(<<"config has", nodetype, "but expected", exp>>, loc)

Scalar(to, err) == [scalar |-> TRUE, to |-> to, err |-> err]
NotScalar(to, loc) ==
    [scalar |-> FALSE, to |-> to, err |-> Errorf(<<"is not a scalar">>, loc)]

\* constant.Int64Val: exact for the int64Val constants, which are the
\* integers of the model; inexact for an intVal; a panic for a constant
\* that is not an Int, and the panic of the type assertion
\* value.(constant.Value) for the float64 of an infinity or a NaN.
Int64Val(value) ==
    CASE value.k = "int" -> [i |-> value.n, exact |-> TRUE, panic |-> ""]
      [] value.k = "big" -> [i |-> 0, exact |-> FALSE, panic |-> ""]
      [] value.k = "float" -> [i |-> 0, exact |-> FALSE, panic |-> "not an Int"]
      [] OTHER -> [i |-> 0, exact |-> FALSE, panic |-> "interface conversion"]

\* constant.Uint64Val
Uint64Val(value) ==
    CASE value.k = "int" -> [i |-> value.n, exact |-> value.n >= 0, panic |-> ""]
      [] value.k = "big" -> [i |-> 0, exact |-> FALSE, panic |-> ""]
      [] value.k = "float" -> [i |-> 0, exact |-> FALSE, panic |-> "not an Int"]
      [] OTHER -> [i |-> 0, exact |-> FALSE, panic |-> "interface conversion"]

\* reflect.Value.SetInt: the conversion int8(x), int16(x) or int64(x).
SetInt(bits, x) ==
    IF bits >= 32 THEN x
    ELSE IF x % (2 ^ bits) >= 2 ^ (bits - 1) THEN (x % (2 ^ bits)) - 2 ^ bits
    ELSE x % (2 ^ bits)

\* reflect.Value.SetUint: the conversion uint8(x), uint16(x) or uint64(x).
SetUint(bits, x) == IF bits >= 32 THEN x ELSE x % (2 ^ bits)

\* The float32 nearest to an integer of magnitude below 2^25, ties to even.
Float32Of(n) ==
    IF n < 0 - 16777216 \/ n > 16777216
    THEN (IF n % 2 = 0 THEN n ELSE IF (n + 1) % 4 = 0 THEN n + 1 ELSE n - 1)
    ELSE n

\* reflect.Value.SetFloat of the result of constant.Float64Val: an integer
\* of the model is a float64; a float32 destination gets the nearest
\* float32.  The float64 nearest to another constant is kept as that
\* constant.
SetFloat(bits, value) ==
    IF value.k = "int" /\ bits = 32 THEN FloatOf(IntValue(Float32Of(value.n)))
    ELSE FloatOf(value)

SetIntChecked(to, r, loc) ==
    IF r.panic # "" THEN Scalar(to, PanicError(<<r.panic>>, loc))
    ELSE IF ~r.exact
    THEN Scalar(to, Errorf(<<"cannot assign", "value does not fit">>, loc))
    ELSE Scalar(ValueOf(to.typ,
                        IntOf(IF to.typ.kind = "int" THEN SetInt(to.typ.bits, r.i)
                              ELSE SetUint(to.typ.bits, r.i))),
                NoError)

\* SetScalar: the kinds of the model; the destinations that are big
\* numbers, text unmarshalers, byte slices or URLs are not.
SetScalar(to, value, nodetype, loc) ==
    CASE to.typ.kind = "interface" ->
            IF value # NoValue THEN Scalar(ValueOf(to.typ, ToScalar(value)), NoError)
            ELSE IF nodetype = NodeNil THEN Scalar(ValueOf(to.typ, NilValue), NoError)
            ELSE NotScalar(to, loc)
      [] to.typ.kind = "bool" ->
            IF nodetype # NodeBool THEN Scalar(to, scalarNodeErr(nodetype, NodeBool, loc))
            ELSE Scalar(ValueOf(to.typ, BoolOf(value.b)), NoError)
      [] to.typ.kind = "int" ->
            IF nodetype # NodeNumber
            THEN Scalar(to, scalarNodeErr(nodetype, NodeNumber, loc))
            ELSE SetIntChecked(to, Int64Val(value), loc)
      [] to.typ.kind = "uint" ->
            IF nodetype # NodeNumber
            THEN Scalar(to, scalarNodeErr(nodetype, NodeNumber, loc))
            ELSE SetIntChecked(to, Uint64Val(value), loc)
      [] to.typ.kind = "float" ->
            IF nodetype # NodeNumber
            THEN Scalar(to, scalarNodeErr(nodetype, NodeNumber, loc))
            ELSE Scalar(ValueOf(to.typ, SetFloat(to.typ.bits, value)), NoError)
      [] to.typ.kind = "string" ->
            IF nodetype # NodeString
            THEN Scalar(to, scalarNodeErr(nodetype, NodeString, loc))
            ELSE Scalar(ValueOf(to.typ, StringOf(value.s)), NoError)
      [] OTHER -> NotScalar(to, loc)

\* VisibleFields: the fields by their formatted names.
HasField(typ, fieldname) ==
    \E i \in DOMAIN typ.fields : SnakeCase(typ.fields[i].Name) = fieldname
FieldIndex(typ, fieldname) ==
    CHOOSE i \in DOMAIN typ.fields : SnakeCase(typ.fields[i].Name) = fieldname

\* reflect.Value: Field, Index and MapIndex, and the stores through them.
FieldOf(val, i) == ValueOf(val.typ.fields[i].Type, val.v.f[i])
StoreField(val, i, elem) == ValueOf(val.typ, StructValue([val.v.f EXCEPT ![i] = elem.v]))
IndexOf(val, idx) == ValueOf(val.typ.elem, val.v.l[idx + 1])
StoreIndex(val, idx, elem) ==
    ValueOf(val.typ, ListValue([val.v.l EXCEPT ![idx + 1] = elem.v]))
MapHas(val, key) == key \in DOMAIN val.v.m
\* reflect.New(typ.Elem()).Elem(), set to the element at the key if any.
MapIndexOrZero(val, key) ==
    ValueOf(val.typ.elem, IF MapHas(val, key) THEN val.v.m[key] ELSE Zero(val.typ.elem))
StoreMapIndex(val, key, elem) ==
    ValueOf(val.typ, MapValue([x \in DOMAIN val.v.m \cup {key} |->
                                 IF x = key THEN elem.v ELSE val.v.m[x]]))

\* The result of the model of unmarshal and Set for interface{}.
FromInterface(val, r, loc) ==
    [val |-> ValueOf(val.typ, r.v),
     err |-> IF r.err = "" THEN NoError ELSE Errorf(<<r.err>>, loc)]

\* Set, the closure wrapErr; the slice expression panics when the path of
\* the error is more than one component longer than at.
wrapErr(err, at) ==
    IF err.kind = "pathError"
    THEN (IF Len(at) - Len(err.Full) + 1 < 0
          THEN PanicError(<<"slice bounds out of range">>, err.loc)
          ELSE [err EXCEPT !.Path = SubSeq(at, 1, Len(at) - Len(err.Full) + 1),
                           !.Full = at])
    ELSE IF err.kind = "panic" THEN err
    ELSE [kind |-> "pathError", Full |-> at, Path |-> <<>>, Err |-> err,
          loc |-> err.loc]

Wrapped(r, at) == IF r.err = NoError THEN r ELSE Abort(r.val, wrapErr(r.err, at))

BracketAll(at) == [j \in 1 .. Len(at) |-> Bracket(at[j])]

RECURSIVE unmarshalAs(_, _, _, _, _)
RECURSIVE unmarshalIndex(_, _, _, _, _, _)
RECURSIVE unmarshalMapKeys(_, _, _, _, _, _)
RECURSIVE unmarshalFields(_, _, _, _, _, _)
RECURSIVE SetAs(_, _, _, _)

\* unmarshal, case reflect.Array, reflect.Slice: the element at idx is bound.
unmarshalIndexed(r, val, node, idx, path, merge, loc) ==
    IF r.err # NoError THEN Abort(StoreIndex(val, idx, r.val), r.err)
    ELSE unmarshalIndex(StoreIndex(val, idx, r.val), node, idx + 1, path, merge, loc)

\* unmarshal, case reflect.Array, reflect.Slice: the loop over the children.
unmarshalIndex(val, node, idx, path, merge, loc) ==
    IF idx >= Len(node.Children) THEN Bound(val)
    ELSE IF idx >= Len(val.v.l) /\ val.typ.kind = "array"
    THEN Abort(val, LoadError(path, <<"cannot assign", "index out of bounds">>, loc))
    ELSE unmarshalIndexed(unmarshalAs(IndexOf(val, idx), node.Children[idx + 1],
                                      Append(path, Bracket(KeyIdx(idx))), merge,
                                      Append(loc, Bracket(KeyIdx(idx)))),
                          val, node, idx, path, merge, loc)

\* unmarshal, case reflect.Array, reflect.Slice.
unmarshalList(val, node, path, merge, loc) ==
    IF node.Type = NodeNil THEN Bound(ValueOf(val.typ, Zero(val.typ)))
    ELSE IF node.Type # NodeList THEN Abort(val, newNodeErr(node, path, NodeList, loc))
    ELSE unmarshalIndex(IF val.typ.kind = "slice" /\ Len(val.v.l) # Len(node.Children)
                        THEN MakeSliceOf(val.typ, Len(node.Children)) ELSE val,
                        node, 0, path, merge, loc)

unmarshalMapNext(r, node, i, path, merge, loc) ==
    IF r.err # NoError THEN r
    ELSE unmarshalMapKeys(r.val, node, i + 1, path, merge, loc)

\* unmarshal, case reflect.Map, a key that is in the map already: rval is a
\* copy of the element and is not stored.  What it was bound to is in the
\* map only where the copy shares memory with the element: a slice that
\* kept its length, a map that was merged into.
StoreShared(val, key, r, value, merge) ==
    IF \/ /\ val.typ.elem.kind = "slice" /\ value.Type = NodeList
          /\ Len(val.v.m[key].l) = Len(value.Children)
       \/ val.typ.elem.kind = "map" /\ value.Type = NodeMap /\ merge
    THEN StoreMapIndex(val, key, r.val)
    ELSE val

\* unmarshal, case reflect.Map: the value of a key is bound.
unmarshalMapValue(r, key, val, node, i, path, merge, loc) ==
    IF r.err # NoError THEN Abort(val, r.err)
    ELSE unmarshalMapKeys(IF MapHas(val, key)
                          THEN StoreShared(val, key, r, node.Children[i].Children[1], merge)
                          ELSE StoreMapIndex(val, key, r.val),
                          node, i + 1, path, merge, loc)

\* unmarshal, case reflect.Map: the key is bound to a new string.
unmarshalMapKey(rk, val, node, i, path, merge, loc) ==
    IF rk.err # NoError THEN Abort(val, rk.err)
    ELSE unmarshalMapValue(
            unmarshalAs(MapIndexOrZero(val, KeyStr(rk.val.v.s)),
                        node.Children[i].Children[1],
                        Append(path, Bracket(KeyStr(rk.val.v.s))), merge,
                        Append(loc, Bracket(KeyStr(rk.val.v.s)))),
            KeyStr(rk.val.v.s), val, node, i, path, merge, loc)

\* unmarshal, case reflect.Map: the loop over the keys.
unmarshalMapKeys(val, node, i, path, merge, loc) ==
    IF i > Len(node.Children) THEN Bound(val)
    ELSE IF node.Children[i].Type = NodeKeyPath
    THEN unmarshalMapNext(SetAs(val, node.Children[i].Children[1],
                                node.Children[i].Value.path, loc),
                          node, i, path, merge, loc)
    ELSE unmarshalMapKey(unmarshalAs(ValueOf(StringKind, Zero(StringKind)),
                                     node.Children[i], path, merge, loc),
                         val, node, i, path, merge, loc)

\* unmarshal, case reflect.Map.
unmarshalMap(val, node, path, merge, loc) ==
    IF node.Type = NodeNil THEN Bound(ValueOf(val.typ, Zero(val.typ)))
    ELSE IF node.Type # NodeMap THEN Abort(val, newNodeErr(node, path, NodeMap, loc))
    ELSE unmarshalMapKeys(IF merge THEN val ELSE ValueOf(val.typ, Zero(val.typ)),
                          node, 1, path, merge, loc)

unmarshalFieldNext(r, node, i, path, merge, loc) ==
    IF r.err # NoError THEN r
    ELSE unmarshalFields(r.val, node, i + 1, path, merge, loc)

unmarshalFieldValue(r, val, idx) ==
    [val |-> StoreField(val, idx, r.val), err |-> r.err]

\* unmarshal, case reflect.Struct: a key that names a field, or none.
unmarshalNamed(val, fieldname, value, node, i, path, merge, loc) ==
    IF ~HasField(val.typ, fieldname)
    THEN unmarshalFields(val, node, i + 1, path, merge, loc)
    ELSE unmarshalFieldNext(
            unmarshalFieldValue(
                unmarshalAs(FieldOf(val, FieldIndex(val.typ, fieldname)), value,
                            Append(path, Dot(val.typ.fields[FieldIndex(val.typ, fieldname)].Name)),
                            merge,
                            Append(loc, Dot(val.typ.fields[FieldIndex(val.typ, fieldname)].Name))),
                val, FieldIndex(val.typ, fieldname)),
            node, i, path, merge, loc)

\* unmarshal, case reflect.Struct: the name of the field a key stands for.
FieldName(key) ==
    CASE key.Type = NodeString -> key.Value.s
      [] key.Type = NodeBool ->
            IF key.Value.b THEN <<"t", "r", "u", "e">> ELSE <<"f", "a", "l", "s", "e">>
      [] key.Type = NodeNil -> <<"n", "u", "l", "l">>

\* unmarshal, case reflect.Struct: the loop over the keys.  A key path
\* appends its components to path, which the keys after it inherit.
unmarshalFields(val, node, i, path, merge, loc) ==
    IF i > Len(node.Children) THEN Bound(val)
    ELSE IF node.Children[i].Type = NodeKeyPath
    THEN unmarshalFieldNext(SetAs(val, node.Children[i].Children[1],
                                  node.Children[i].Value.path, loc),
                            node, i, path \o BracketAll(node.Children[i].Value.path),
                            merge, loc)
    ELSE IF node.Children[i].Type \in {NodeString, NodeBool, NodeNil}
    THEN unmarshalNamed(val, FieldName(node.Children[i]), node.Children[i].Children[1],
                        node, i, path, merge, loc)
    ELSE Abort(val, Errorf(<<"unsupported node type">>, loc))

\* unmarshal, case reflect.Struct.
unmarshalRecord(val, node, path, merge, loc) ==
    IF node.Type # NodeMap THEN Abort(val, newNodeErr(node, path, NodeMap, loc))
    ELSE unmarshalFields(IF merge THEN val ELSE ValueOf(val.typ, Zero(val.typ)),
                         node, 1, path, merge, loc)

\* unmarshal after the call of SetScalar: the switch on the kind.
unmarshalKind(sc, val, node, path, merge, loc) ==
    IF sc.scalar THEN [val |-> sc.to, err |-> sc.err]
    ELSE CASE val.typ.kind \in {"slice", "array"} ->
                unmarshalList(val, node, path, merge, loc)
           [] val.typ.kind = "map" -> unmarshalMap(val, node, path, merge, loc)
           [] val.typ.kind = "struct" -> unmarshalRecord(val, node, path, merge, loc)
           [] val.typ.kind = "interface" ->
                FromInterface(val, unmarshal(val.v, node, merge), loc)
           [] OTHER -> Abort(val, Errorf(<<"cannot assign", "unsupported type">>, loc))

\* unmarshal(val, node, convention, path, merge, unmarshaler), for a
\* destination that the hook UnmarshalValue leaves alone.
unmarshalAs(val, node, path, merge, loc) ==
    unmarshalKind(SetScalar(val, node.Value, node.Type, loc), val, node, path, merge, loc)

\* Set that stores the element in a new map.
SetElemNewMap(r, val, at) ==
    IF r.err # NoError THEN Abort(val, wrapErr(r.err, at))
    ELSE CASE val.typ.kind = "map" ->
                Bound(StoreMapIndex(ValueOf(val.typ, Zero(val.typ)), Head(at), r.val))
           [] val.typ.kind = "struct" ->
                Bound(StoreField(val, FieldIndex(val.typ, Head(at).s), r.val))
           [] OTHER -> Bound(StoreIndex(val, Head(at).n, r.val))

\* Set: the element of the container is set; a map stores it, a list
\* holds it in place.
SetElem(r, val, at) ==
    IF r.err # NoError THEN Abort(val, wrapErr(r.err, at))
    ELSE CASE val.typ.kind = "map" -> Bound(StoreMapIndex(val, Head(at), r.val))
           [] val.typ.kind = "struct" ->
                Bound(StoreField(val, FieldIndex(val.typ, Head(at).s), r.val))
           [] OTHER -> Bound(StoreIndex(val, Head(at).n, r.val))

\* Set, case reflect.Slice, reflect.Array with an index: nval is the list,
\* grown to hold the index if it was shorter.
SetAtIndex(val, nval, node, at, loc) ==
    SetElem(SetAs(IndexOf(nval, Head(at).n), node, Tail(at),
                  Append(loc, Bracket(Head(at)))),
            nval, at)

\* Set(val, node, convention, unmarshaler, at...)
SetAs(val, node, at, loc) ==
    IF at = <<>> THEN unmarshalAs(val, node, <<>>, TRUE, loc)
    ELSE CASE val.typ.kind = "interface" ->
                FromInterface(val, Set(val.v, node, at), loc)
           [] val.typ.kind = "map" ->
                IF Head(at).int
                THEN Abort(val, wrapErr(Errorf(<<"cannot index map with int">>, loc), at))
                ELSE SetElem(SetAs(MapIndexOrZero(val, Head(at)), node, Tail(at),
                                   Append(loc, Bracket(Head(at)))),
                             val, at)
           [] val.typ.kind \in {"slice", "array"} ->
                IF ~Head(at).int
                THEN Abort(val, wrapErr(Errorf(<<"cannot index slice or array">>, loc), at))
                ELSE IF Len(val.v.l) > Head(at).n THEN SetAtIndex(val, val, node, at, loc)
                ELSE IF val.typ.kind = "array"
                THEN Abort(val, wrapErr(Errorf(<<"cannot index array",
                                                 "index out of bounds">>, loc), at))
                ELSE SetAtIndex(val,
                                ValueOf(val.typ,
                                        ListValue([i \in 1 .. Head(at).n + 1 |->
                                            IF i <= Len(val.v.l) THEN val.v.l[i]
                                            ELSE Zero(val.typ.elem)])),
                                node, at, loc)
           [] val.typ.kind = "struct" ->
                IF Head(at).int \/ ~HasField(val.typ, Head(at).s) THEN Bound(val)
                ELSE SetElem(SetAs(FieldOf(val, FieldIndex(val.typ, Head(at).s)), node,
                                   Tail(at),
                                   Append(loc, Dot(val.typ.fields[
                                              FieldIndex(val.typ, Head(at).s)].Name))),
                             val, at)
           [] OTHER -> Abort(val, wrapErr(Errorf(<<"cannot index with key">>, loc), at))

\* reflectutil.Unmarshal
Unmarshal(val, node) == unmarshalAs(val, node, <<>>, FALSE, <<>>)

(***************************************************************************)
(* The destinations and the documents of the model of the binding engine.  *)
(* The destination types are                                               *)
(*     type Server struct { IP string; Port int16 }                        *)
(*     type Settings struct {                                              *)
(*         Name string; Level int8; Size uint8; Ratio float32              *)
(*         Tags []string; Pair [2]int16; Server Server; Servers []Server   *)
(*         Limits map[string]int64; Extra interface{} }                    *)
(* and map[string]int64 and interface{}.  A document is the tree that the  *)
(* JSON5 parser (string keys) or the TOML parser (key paths) returns for   *)
(* the text in the comment before it; the tokens and the positions of the  *)
(* nodes, which binding does not read, are left empty.                     *)
(***************************************************************************)
Server ==
    StructType(<<StructField(<<"I", "P">>, StringKind),
                 StructField(<<"P", "o", "r", "t">>, IntKind(16))>>)

Settings ==
    StructType(<<StructField(<<"N", "a", "m", "e">>, StringKind),
                 StructField(<<"L", "e", "v", "e", "l">>, IntKind(8)),
                 StructField(<<"S", "i", "z", "e">>, UintKind(8)),
                 StructField(<<"R", "a", "t", "i", "o">>, FloatKind(32)),
                 StructField(<<"T", "a", "g", "s">>, SliceOf(StringKind)),
                 StructField(<<"P", "a", "i", "r">>, ArrayOf(IntKind(16), 2)),
                 StructField(<<"S", "e", "r", "v", "e", "r">>, Server),
                 StructField(<<"S", "e", "r", "v", "e", "r", "s">>, SliceOf(Server)),
                 StructField(<<"L", "i", "m", "i", "t", "s">>, MapTo(IntKind(64))),
                 StructField(<<"E", "x", "t", "r", "a">>, InterfaceKind)>>)

DestTypes == {Settings, MapTo(IntKind(64)), InterfaceKind}

kname == <<"n", "a", "m", "e">>
klevel == <<"l", "e", "v", "e", "l">>
ksize == <<"s", "i", "z", "e">>
kratio == <<"r", "a", "t", "i", "o">>
ktags == <<"t", "a", "g", "s">>
kpair == <<"p", "a", "i", "r">>
kserver == <<"s", "e", "r", "v", "e", "r">>
kservers == <<"s", "e", "r", "v", "e", "r", "s">>
klimits == <<"l", "i", "m", "i", "t", "s">>
kextra == <<"e", "x", "t", "r", "a">>
kip == <<"i", "p">>
kport == <<"p", "o", "r", "t">>
kuser == <<"u", "s", "e", "r">>

Str(s) == [ZeroNode EXCEPT !.Type = NodeString, !.Value = StrValue(s)]
Num(c) == [ZeroNode EXCEPT !.Type = NodeNumber, !.Value = c]
Null == [ZeroNode EXCEPT !.Type = NodeNil]
List(nodes) == [ZeroNode EXCEPT !.Type = NodeList, !.Children = nodes]
Object(keys) == [ZeroNode EXCEPT !.Type = NodeMap, !.Children = keys]
\* A member of a JSON5 object: parser.Object makes the key a string node
\* and the value its child.
Member(name, value) ==
    [ZeroNode EXCEPT !.Type = NodeString, !.Value = StrValue(name),
                     !.Children = <<value>>]
\* A key of a TOML document: a key path node and the value as its child.
KeyPath(path, value) ==
    [ZeroNode EXCEPT !.Type = NodeKeyPath, !.Value = PathValue(path),
                     !.Children = <<value>>]

\* Texts in which a key occurs twice.
DuplicateTexts ==
    {<<"{", "n", "a", "m", "e", ":", "\"", "a", "\"", ",",
       "n", "a", "m", "e", ":", "\"", "b", "\"", ",", "}">>,
     \* {limits:{a:1,a:2,},extra:{a:1,a:2,},}
     <<"{", "l", "i", "m", "i", "t", "s", ":", "{", "a", ":", "1", ",", "a", ":", "2", ",", "}", ",",
       "e", "x", "t", "r", "a", ":", "{", "a", ":", "1", ",", "a", ":", "2", ",", "}", ",", "}">>,
     <<"{", "a", ":", "1", ",", "a", ":", "2", ",", "}">>}

\* The tree of a text without its tokens, which binding does not read.
RECURSIVE Bare(_)
Bare(node) ==
    [node EXCEPT !.Tokens = <<>>, !.Suffix = <<>>,
                 !.Children = [i \in DOMAIN node.Children |-> Bare(node.Children[i])]]

Json5Docs ==
    {\* {name: "a"}
     Object(<<Member(kname, Str(<<"a">>))>>),
     \* {level: 5, tags: ["x"]}
     Object(<<Member(klevel, Num(IntValue(5))),
              Member(ktags, List(<<Str(<<"x">>)>>))>>),
     \* {name: "b", level: 300}
     Object(<<Member(kname, Str(<<"b">>)), Member(klevel, Num(IntValue(300)))>>),
     \* {level: -129}
     Object(<<Member(klevel, Num(IntValue(0 - 129)))>>),
     \* {level: "x"}
     Object(<<Member(klevel, Str(<<"x">>))>>),
     \* {user: "me", size: 7}
     Object(<<Member(kuser, Str(<<"m", "e">>)), Member(ksize, Num(IntValue(7)))>>),
     \* {size: -1}
     Object(<<Member(ksize, Num(IntValue(0 - 1)))>>),
     \* {size: 256}
     Object(<<Member(ksize, Num(IntValue(256)))>>),
     \* {level: 18446744073709551616}
     Object(<<Member(klevel, Num(BigValue(1)))>>),
     \* {level: 1.5}
     Object(<<Member(klevel, Num(FloatValue(<<"1", ".", "5">>)))>>),
     \* {ratio: 16777217}
     Object(<<Member(kratio, Num(IntValue(16777217)))>>),
     \* {ratio: 2}
     Object(<<Member(kratio, Num(IntValue(2)))>>),
     \* {pair: [1, 2, 3]}
     Object(<<Member(kpair, List(<<Num(IntValue(1)), Num(IntValue(2)),
                                   Num(IntValue(3))>>))>>),
     \* {server: {ip: "a"}}
     Object(<<Member(kserver, Object(<<Member(kip, Str(<<"a">>))>>))>>),
     \* {server: {port: 2}}
     Object(<<Member(kserver, Object(<<Member(kport, Num(IntValue(2)))>>))>>),
     \* {servers: [{ip: "a", port: 1}, {port: 2, ip: 5}]}
     Object(<<Member(kservers,
                     List(<<Object(<<Member(kip, Str(<<"a">>)),
                                     Member(kport, Num(IntValue(1)))>>),
                            Object(<<Member(kport, Num(IntValue(2))),
                                     Member(kip, Num(IntValue(5)))>>)>>))>>),
     \* {servers: "x"}
     Object(<<Member(kservers, Str(<<"x">>))>>),
     \* {a: 1}
     Object(<<Member(<<"a">>, Num(IntValue(1)))>>),
     \* {b: 2}
     Object(<<Member(<<"b">>, Num(IntValue(2)))>>),
     \* "x"
     Str(<<"x">>)}
        \cup {Bare(parserParse(newLexer(text)).node) : text \in DuplicateTexts}

TomlTrees ==
    {\* name = "a"
     Object(<<KeyPath(<<KeyStr(kname)>>, Str(<<"a">>))>>),
     \* level = 5
     Object(<<KeyPath(<<KeyStr(klevel)>>, Num(IntValue(5)))>>),
     \* level = "x"
     Object(<<KeyPath(<<KeyStr(klevel)>>, Str(<<"x">>))>>),
     \* server.ip = "a"
     Object(<<KeyPath(<<KeyStr(kserver), KeyStr(kip)>>, Str(<<"a">>))>>),
     \* server.port = 2 / name = 7
     Object(<<KeyPath(<<KeyStr(kserver), KeyStr(kport)>>, Num(IntValue(2))),
              KeyPath(<<KeyStr(kname)>>, Num(IntValue(7)))>>),
     \* server.ip = 5
     Object(<<KeyPath(<<KeyStr(kserver), KeyStr(kip)>>, Num(IntValue(5)))>>),
     \* server.ip.v4 = "a"
     Object(<<KeyPath(<<KeyStr(kserver), KeyStr(kip), KeyStr(<<"v", "4">>)>>,
                      Str(<<"a">>))>>),
     \* server = { ip.v4.a = 1 }
     Object(<<KeyPath(<<KeyStr(kserver)>>,
                      Object(<<KeyPath(<<KeyStr(kip), KeyStr(<<"v", "4">>),
                                         KeyStr(<<"a">>)>>,
                                       Num(IntValue(1)))>>))>>),
     \* [[servers]] / ip = "a" / [[servers]] / ip = 5
     Object(<<KeyPath(<<KeyStr(kservers), KeyIdx(0)>>,
                      Object(<<KeyPath(<<KeyStr(kip)>>, Str(<<"a">>))>>)),
              KeyPath(<<KeyStr(kservers), KeyIdx(1)>>,
                      Object(<<KeyPath(<<KeyStr(kip)>>, Num(IntValue(5)))>>))>>),
     \* tags = ["x", 1]
     Object(<<KeyPath(<<KeyStr(ktags)>>,
                      List(<<Str(<<"x">>), Num(IntValue(1))>>))>>),
     \* a = 1
     Object(<<KeyPath(<<KeyStr(<<"a">>)>>, Num(IntValue(1)))>>),
     \* b = 2
     Object(<<KeyPath(<<KeyStr(<<"b">>)>>, Num(IntValue(2)))>>)}

BindDocs == Json5Docs \cup TomlTrees

NoBind == [pc |-> "off", docs |-> <<>>, val |-> ValueOf(InterfaceKind, NilValue),
           err |-> NoError]

\* The destination the caller passes to Decode: new, of one of the types.
BindInit ==
    /\ input = <<>>
    /\ lexer = NewLexer(input, "lex")
    /\ parser = NewParse
    /\ output = NoOutput
    /\ env = NoEnv
    /\ \E typ \in DestTypes :
          dest = [NoBind EXCEPT !.pc = "files", !.val = ValueOf(typ, Zero(typ))]

\* UnmarshalerBase.Decode, the closure decode on the next file of a
\* MultiFile: reflectutil.Unmarshal of the tree into the destination; an
\* error ends Decode.
BindDecode ==
    /\ dest.pc = "files"
    /\ Len(dest.docs) < MaxFiles
    /\ \E doc \in BindDocs :
          \E r \in {Unmarshal(dest.val, doc)} :
              dest' = [pc |-> IF r.err = NoError THEN "files" ELSE "done",
                       docs |-> Append(dest.docs, doc), val |-> r.val, err |-> r.err]
    /\ UNCHANGED <<input, lexer, parser, output, env>>

\* UnmarshalerBase.Decode: the MultiFile has no more file; PopulateFromEnv
\* finds no variable (no name is configured) and Decode returns.
BindReturn ==
    /\ dest.pc = "files"
    /\ dest.docs # <<>>
    /\ dest' = [dest EXCEPT !.pc = "done"]
    /\ UNCHANGED <<input, lexer, parser, output, env>>

BindNext == BindDecode \/ BindReturn

SpecBind == BindInit /\ [][BindNext]_vars

(***************************************************************************)
(* Properties of the binding engine.                                       *)
(***************************************************************************)
NewValue(typ) == ValueOf(typ, Zero(typ))

\* The leaves of a struct type: the fields that are not structs, and the
\* fields of the fields that are, as sequences of field indices.
Leaves(typ) ==
    {<<i>> : i \in {j \in DOMAIN typ.fields : typ.fields[j].Type.kind # "struct"}}
        \cup UNION {{<<i, j>> : j \in DOMAIN typ.fields[i].Type.fields} :
                       i \in {j \in DOMAIN typ.fields :
                                 typ.fields[j].Type.kind = "struct"}}

LeafAt(val, leaf) ==
    IF Len(leaf) = 1 THEN val.v.f[leaf[1]] ELSE val.v.f[leaf[1]].f[leaf[2]]

\* The keys a document has to write for a leaf: the formatted names of the
\* fields on the way to it.
LeafKeys(typ, leaf) ==
    IF Len(leaf) = 1 THEN <<SnakeCase(typ.fields[leaf[1]].Name)>>
    ELSE <<SnakeCase(typ.fields[leaf[1]].Name),
           SnakeCase(typ.fields[leaf[1]].Type.fields[leaf[2]].Name)>>

\* The names a key node stands for: one for a member of a JSON5 object, the
\* components for a key path.
KeyNames(key) ==
    IF key.Type = NodeKeyPath
    THEN [i \in 1 .. Len(key.Value.path) |-> key.Value.path[i].s]
    ELSE <<key.Value.s>>

\* The document assigns the location the names lead to.
RECURSIVE Mentions(_, _)
Mentions(node, names) ==
    /\ node.Type = NodeMap
    /\ \E i \in DOMAIN node.Children :
          /\ Len(KeyNames(node.Children[i])) <= Len(names)
          /\ KeyNames(node.Children[i]) = SubSeq(names, 1, Len(KeyNames(node.Children[i])))
          /\ \/ Len(KeyNames(node.Children[i])) = Len(names)
             \/ Mentions(node.Children[i].Children[1],
                         SubSeq(names, Len(KeyNames(node.Children[i])) + 1, Len(names)))

\* The documents decoded so far that assign the location.
Mentioning(names) == {j \in DOMAIN dest.docs : Mentions(dest.docs[j], names)}

LastOf(S) == CHOOSE j \in S : \A i \in S : i <= j

\* Decode has returned without an error.
Decoded == dest.pc = "done" /\ dest.err = NoError

\* C11: when several documents are decoded one after another into the same
\* destination, a field (a leaf of the record, or a key of the map) that a
\* document assigned holds, after the last document, the value that the last
\* of the documents that assign it gives it: a field that no later document
\* mentions keeps its value.
C11_LeafOverlay ==
    /\ Decoded /\ dest.val.typ = Settings =>
          \A leaf \in Leaves(Settings) :
              Mentioning(LeafKeys(Settings, leaf)) # {} =>
                  LeafAt(dest.val, leaf) =
                      LeafAt(Unmarshal(NewValue(Settings),
                                       dest.docs[LastOf(Mentioning(LeafKeys(Settings, leaf)))]).val,
                             leaf)
    /\ Decoded /\ dest.val.typ.kind = "map" =>
          \A name \in {<<"a">>, <<"b">>} :
              Mentioning(<<name>>) # {} =>
                  /\ KeyStr(name) \in DOMAIN dest.val.v.m
                  /\ dest.val.v.m[KeyStr(name)] =
                         Unmarshal(NewValue(dest.val.typ),
                                   dest.docs[LastOf(Mentioning(<<name>>))]).val.v.m[KeyStr(name)]

\* The constants of the number nodes a document assigns to the key.
AssignedNumbers(doc, name) ==
    IF doc.Type # NodeMap THEN {}
    ELSE {doc.Children[i].Children[1].Value :
             i \in {j \in DOMAIN doc.Children :
                       /\ KeyNames(doc.Children[j]) = <<name>>
                       /\ doc.Children[j].Children[1].Type = NodeNumber}}

\* The constant is a value of the numeric type: an integer in the range of
\* an integer kind; for float32, an integer that needs no more than 24 bits
\* of mantissa (every integer of magnitude up to 2^24, the even ones up to
\* 2^25).
Fits(c, typ) ==
    /\ c.k = "int"
    /\ CASE typ.kind = "int" ->
                c.n >= 0 - 2 ^ (typ.bits - 1) /\ c.n < 2 ^ (typ.bits - 1)
         [] typ.kind = "uint" -> c.n >= 0 /\ c.n < 2 ^ typ.bits
         [] typ.kind = "float" ->
                \/ c.n >= 0 - 16777216 /\ c.n <= 16777216
                \/ c.n >= 0 - 33554432 /\ c.n <= 33554432 /\ c.n % 2 = 0

\* The value a numeric destination holds when it holds the integer n.
Holding(typ, n) == IF typ.kind = "float" THEN FloatOf(IntValue(n)) ELSE IntOf(n)

OverflowError(err) ==
    err.kind = "error" /\ err.msg = <<"cannot assign", "value does not fit">>

NumericFields(typ) ==
    {i \in DOMAIN typ.fields : typ.fields[i].Type.kind \in {"int", "uint", "float"}}

\* C12: binding a number node to a fixed-width numeric field gives the field
\* the value of the node when the value is one of the field's type, and
\* fails with an overflow error when it is not; the field never receives
\* another value than the one of the node.
C12_NarrowingIsExact ==
    dest.pc # "off" /\ Len(dest.docs) = 1 /\ dest.val.typ = Settings =>
        \A i \in NumericFields(Settings) :
            \A c \in AssignedNumbers(dest.docs[1], SnakeCase(Settings.fields[i].Name)) :
                IF Fits(c, Settings.fields[i].Type)
                THEN /\ dest.err = NoError
                     /\ dest.val.v.f[i] = Holding(Settings.fields[i].Type, c.n)
                ELSE OverflowError(IF dest.err.kind = "pathError" THEN dest.err.Err
                                   ELSE dest.err)

\* The value nodes a document assigns to the location the names lead to.
RECURSIVE AssignedNodes(_, _)
AssignedNodes(node, names) ==
    IF node.Type # NodeMap THEN {}
    ELSE UNION {IF KeyNames(node.Children[i]) = names
                THEN {node.Children[i].Children[1]}
                ELSE IF /\ Len(KeyNames(node.Children[i])) < Len(names)
                        /\ KeyNames(node.Children[i]) =
                               SubSeq(names, 1, Len(KeyNames(node.Children[i])))
                THEN AssignedNodes(node.Children[i].Children[1],
                                   SubSeq(names, Len(KeyNames(node.Children[i])) + 1,
                                          Len(names)))
                ELSE {} : i \in DOMAIN node.Children}

\* The type of node a scalar kind is bound from.
NodeTypeOf(typ) ==
    CASE typ.kind \in {"int", "uint", "float"} -> NodeNumber
      [] typ.kind = "string" -> NodeString
      [] typ.kind = "bool" -> NodeBool

LeafType(typ, leaf) ==
    IF Len(leaf) = 1 THEN typ.fields[leaf[1]].Type
    ELSE typ.fields[leaf[1]].Type.fields[leaf[2]].Type

ScalarLeaves(typ) ==
    {leaf \in Leaves(typ) :
        LeafType(typ, leaf).kind \in {"int", "uint", "float", "string", "bool"}}

\* The document assigns to a scalar field of the record a node of another
\* type than the field's.
HasMismatch(doc, typ) ==
    \E leaf \in ScalarLeaves(typ) :
        \E node \in AssignedNodes(doc, LeafKeys(typ, leaf)) :
            node.Type # NodeTypeOf(LeafType(typ, leaf))

\* The document without the keys of its top level that name no field.
Known(doc, typ) ==
    [doc EXCEPT !.Children =
        SelectSeq(doc.Children, LAMBDA key : HasField(typ, KeyNames(key)[1]))]

HasUnknown(doc, typ) == doc.Type = NodeMap /\ Known(doc, typ) # doc

MismatchError(err) ==
    /\ err.kind \in {"error", "LoadError"}
    /\ Len(err.msg) = 4 /\ err.msg[1] = "config has"

TheError(err) == IF err.kind = "pathError" THEN err.Err ELSE err

\* C13: binding a document to a record skips the keys that name no field: the
\* record is bound, and an error returned or not, as for the document without
\* those keys.  A key whose node is of another type than its scalar field's
\* is not skipped: at every level binding returns an error for it.
C13_MissingSkippedMismatchFails ==
    dest.pc # "off" /\ Len(dest.docs) = 1 /\ dest.val.typ = Settings
        /\ dest.docs[1].Type = NodeMap =>
            /\ dest.val = Unmarshal(NewValue(Settings), Known(dest.docs[1], Settings)).val
            /\ (dest.err = NoError) =
                   (Unmarshal(NewValue(Settings), Known(dest.docs[1], Settings)).err = NoError)
            /\ HasMismatch(dest.docs[1], Settings) => dest.err # NoError

\* A document with a key that names no field before a key that names one is
\* bound without an error, the field after the unknown key included; and a
\* document with a mismatched key below the top level was decoded.
C13_Witness ==
    /\ dest.pc = "done" /\ Len(dest.docs) = 1 /\ dest.val.typ = Settings
    /\ HasUnknown(dest.docs[1], Settings)
    /\ Mentions(dest.docs[1], <<ksize>>)
    /\ dest.err = NoError
    /\ dest.val.v.f[3] = IntOf(7)

\* C13 as stated: an error for a node of another type than the destination's
\* is returned only for the top level of the destination.
C13_MismatchesAreSkipped ==
    dest.pc # "off" /\ dest.err # NoError /\ MismatchError(TheError(dest.err)) =>
        dest.err.loc = <<>>

\* The error carries a path: a LoadError whose target is not the name of a
\* type, or a pathError.
CarriesPath(err) ==
    \/ err.kind = "pathError"
    \/ err.kind = "LoadError" /\ ~err.Target.type

\* The path expression of an error: the path of a pathError ("<value>",
\* then ".%v" or "[%d]" for each component), followed by the target of the
\* LoadError it wraps, if any.
ReportedPath(err) ==
    CASE err.kind = "LoadError" -> IF err.Target.type THEN <<>> ELSE err.Target.path
      [] err.kind = "pathError" ->
            [j \in 1 .. Len(err.Path) |->
                IF err.Path[j].int THEN Bracket(err.Path[j])
                ELSE [sep |-> ".", e |-> err.Path[j]]]
                \o (IF err.Err.kind = "LoadError" /\ ~err.Err.Target.type
                    THEN err.Err.Target.path ELSE <<>>)
      [] OTHER -> <<>>

\* A component of a path, whatever the convention its name is written in.
Component(c) == IF c.e.int THEN c.e ELSE KeyStr(SnakeCase(c.e.s))

\* The path expression denotes the location.
Denotes(path, loc) ==
    /\ Len(path) = Len(loc)
    /\ \A j \in 1 .. Len(path) : Component(path[j]) = Component(loc[j])

\* C20: an error that the binding engine returns for a failure at a nested
\* location of the destination carries a path expression, and the expression
\* denotes the location where binding failed.
C20_ErrorPaths ==
    dest.pc # "off" /\ dest.err # NoError /\ dest.err.kind # "panic"
        /\ dest.err.loc # <<>> =>
            /\ CarriesPath(dest.err)
            /\ Denotes(ReportedPath(dest.err), dest.err.loc)

\* The object without the occurrences of a key that a later occurrence of
\* the same key follows, at every level.
RECURSIVE LastOccurrences(_)
LastKeys(children) ==
    SelectSeq([i \in DOMAIN children |->
                  [key |-> [children[i] EXCEPT
                               !.Children = <<LastOccurrences(children[i].Children[1])>>],
                   last |-> \A j \in DOMAIN children :
                               j > i => children[j].Value # children[i].Value]],
              LAMBDA c : c.last)

LastOccurrences(node) ==
    CASE node.Type = NodeMap ->
            [node EXCEPT !.Children =
                [i \in DOMAIN LastKeys(node.Children) |-> LastKeys(node.Children)[i].key]]
      [] node.Type = NodeList ->
            [node EXCEPT !.Children =
                [i \in DOMAIN node.Children |-> LastOccurrences(node.Children[i])]]
      [] OTHER -> node

\* C14: the JSON5 parser accepts an object in which a key occurs twice, and
\* binding the object gives the destination (a record, a map or an
\* interface) the value that binding the object with the last occurrence of
\* every key alone gives it.
C14_LastWriteWins ==
    \A text \in DuplicateTexts :
        /\ parserParse(newLexer(text)).err = <<>>
        /\ dest.pc # "off" /\ dest.docs = <<Bare(parserParse(newLexer(text)).node)>>
              /\ Unmarshal(NewValue(dest.val.typ),
                           LastOccurrences(Bare(parserParse(newLexer(text)).node))).err = NoError =>
                /\ dest.err = NoError
                /\ dest.val = Unmarshal(NewValue(dest.val.typ),
                                        LastOccurrences(Bare(parserParse(newLexer(text)).node))).val

(***************************************************************************)
(* The lines of the text of the encoder, and the lines that the value      *)
(* calls for.                                                              *)
(***************************************************************************)
RECURSIVE Unindent(_)
Unindent(c) == IF c # <<>> /\ Head(c) = " " THEN Unindent(Tail(c)) ELSE c

\* MarshalList writes a list that is the value of a key of a table over
\* several lines: the bracket, one line for each element, the bracket.
OpensList(c) == LineKind(c) = "assign" /\ Last(c) = "["

InsideList(lines, i) ==
    \E j \in 1 .. i - 1 :
        /\ OpensList(lines[j])
        /\ \A k \in j + 1 .. i - 1 : lines[k] # <<"]">>

Unindented(lines) == [i \in DOMAIN lines |-> Unindent(lines[i])]

\* The lines, those of the elements of a list emptied.
WithoutElems(lines) ==
    [i \in DOMAIN lines |-> IF InsideList(lines, i) THEN <<>> ELSE lines[i]]

KindAndPath(ref) ==
    SelectSeq([i \in DOMAIN ref |-> [kind |-> ref[i].kind, fq |-> ref[i].fq]],
              LAMBDA line : line.kind # "other")

\* The assignments and the headers of the text, in the order of the text,
\* each with its fully-qualified path.
RenderedLines ==
    KindAndPath(RefScan(WithoutElems(Unindented(SplitLines(input, <<>>))),
                        1, <<>>, [x \in {} |-> 0]))

\* The lines for a map or a record at a path: the assignments of its keys
\* that are values and not nil, in the order of the keys, then, for each key that is
\* not, in the order of the keys, its header (one for each element of a
\* list) and the lines of the table below it.
RECURSIVE ExpectedLines(_, _)
ExpectedKey(kv, path) ==
    IF kv.Value.k = "list"
    THEN Flatten([i \in DOMAIN kv.Value.elems |->
                     <<[kind |-> "array",
                        fq |-> path \o <<KeyStr(kv.Key), KeyIdx(i - 1)>>]>>
                        \o ExpectedLines(kv.Value.elems[i],
                                         path \o <<KeyStr(kv.Key), KeyIdx(i - 1)>>)])
    ELSE <<[kind |-> "table", fq |-> Append(path, KeyStr(kv.Key))]>>
            \o ExpectedLines(kv.Value, Append(path, KeyStr(kv.Key)))

ExpectedAssignments(kvs, path) ==
    [i \in DOMAIN kvs |-> [kind |-> "assign", fq |-> Append(path, KeyStr(kvs[i].Key))]]

ExpectedTables(kvs, path) ==
    Flatten([i \in DOMAIN kvs |-> ExpectedKey(kvs[i], path)])

ExpectedLines(val, path) ==
    ExpectedAssignments(SelectSeq(EntriesOf(val),
                                  LAMBDA kv : isValueType(kv.Value) /\ kv.Value.k # "nil"),
                        path)
        \o ExpectedTables(SelectSeq(EntriesOf(val), LAMBDA kv : ~isValueType(kv.Value)),
                          path)

\* The encoder has just returned the text, without an error.
Encoded == dest.pc = "encoded" /\ lexer = NewLexer(input, "lex")

\* C15: in the text of the TOML encoder for a value, at every level, the
\* keys that are values are assigned before the header of any key that
\* makes a table or an array of tables, whatever the order of the fields or
\* of the keys, and the keys of each of the two groups follow one another in
\* the order of the fields, or of the sorted keys of the map.
C15_ValuesBeforeTables ==
    Encoded => RenderedLines = ExpectedLines(dest.value, <<>>)

\* C15, witness: a record whose first field makes a table and whose later
\* fields are values, with two keys in each group, was encoded.
C15_Witness ==
    /\ Encoded
    /\ dest.value.k = "struct" /\ Len(dest.value.fields) = 4
    /\ ~isValueType(dest.value.fields[1].Value)
    /\ isValueType(dest.value.fields[2].Value)
    /\ ~isValueType(dest.value.fields[3].Value)
    /\ isValueType(dest.value.fields[4].Value)
    /\ Len(RenderedLines) >= 4
    /\ RenderedLines[1].kind = "assign" /\ RenderedLines[2].kind = "assign"
    /\ RenderedLines[3].kind = "table"

\* C19: the encoder returns the error of a nil pointer or interface for the
\* document only, never for a nil inside a record, a map or a list; TOML
\* having no representation of nil, a nil document is an error.
C19_NilFailsAtRootOnly ==
    dest.pc \in {"encoded", "failed"} =>
        /\ dest.err = CannotEncodeNil => dest.value.k = "nil"
        /\ dest.value.k = "nil" => dest.pc = "failed"

(***************************************************************************)
(* Properties of the JSON5 encoder.  The text of a value is read line by  *)
(* line: the values of the model have no string that holds a brace, a      *)
(* bracket or a comma.                                                     *)
(***************************************************************************)
\* The lines of a text, without their line feeds.
LineStarts(text) ==
    {i \in 1 .. Len(text) : i = 1 \/ text[i - 1] = "\n"}
LineEnd(text, start) ==
    IF \E j \in start .. Len(text) : text[j] = "\n"
    THEN (CHOOSE j \in start .. Len(text) :
             text[j] = "\n" /\ \A n \in start .. j - 1 : text[n] # "\n") - 1
    ELSE Len(text)
TextLines(text) ==
    [k \in 1 .. Cardinality(LineStarts(text)) |->
        LET start == CHOOSE i \in LineStarts(text) :
                        Cardinality({j \in LineStarts(text) : j < i}) = k - 1
        IN  SubSeq(text, start, LineEnd(text, start))]

\* A line without the blanks that start it.
RECURSIVE Content(_)
Content(line) == IF line # <<>> /\ Head(line) = " " THEN Content(Tail(line)) ELSE line

IsCommentLine(line) == Len(Content(line)) >= 2 /\ SubSeq(Content(line), 1, 2) = <<"/", "/">>
OpensMember(line) == line # <<>> /\ Last(line) \in {"{", "["}
ClosesContainer(line) == Content(line) # <<>> /\ Head(Content(line)) \in {"}", "]"}

\* The line ends a member of an object or an element of a list: it is
\* indented, it is no comment, and it does not open a container.
EndsMember(line) ==
    /\ line # <<>> /\ Head(line) = " "
    /\ ~IsCommentLine(line)
    /\ ~OpensMember(line)

\* The index of the first line after i that is no comment.
RECURSIVE NextLine(_, _)
NextLine(lines, i) ==
    IF i + 1 <= Len(lines) /\ IsCommentLine(lines[i + 1]) THEN NextLine(lines, i + 1)
    ELSE i + 1

\* The number of the members and elements of a value that the encoder
\* renders: the entries of the maps, the visible fields of the records, the
\* elements of the lists, at every depth.
RECURSIVE Rendered(_)
RECURSIVE RenderedIn(_, _)
RenderedIn(vals, i) ==
    IF i > Len(vals) THEN 0 ELSE 1 + Rendered(vals[i]) + RenderedIn(vals, i + 1)
Rendered(val) ==
    CASE val.k \in {"map", "list"} -> RenderedIn(val.elems, 1)
      [] val.k = "struct" ->
            RenderedIn([i \in 1 .. Len(VisibleFields(val)) |-> VisibleFields(val)[i].Value], 1)
      [] OTHER -> 0

MembersAndCommas(lines, val, json) ==
    /\ Cardinality({i \in 1 .. Len(lines) : EndsMember(lines[i])}) = Rendered(val)
    /\ \A i \in 1 .. Len(lines) :
          EndsMember(lines[i]) =>
              /\ NextLine(lines, i) <= Len(lines)
              /\ Last(lines[i]) = "," <=>
                     ~json \/ ~ClosesContainer(lines[NextLine(lines, i)])

\* C16: the JSON5 encoder writes each member of an object and each element
\* of a list that it renders on a line of its own; without the JSON option
\* each of these lines ends with a comma; with the JSON option the last one
\* of every object and list has no comma and every other one has one, also
\* for a record with unexported, ignored or nil fields.
C16_MembersAndCommas ==
    dest.pc = "encoded5" => MembersAndCommas(TextLines(input), dest.value, dest.json)

\* What JSON5 has and JSON has not, among the tokens of a text: a comment,
\* an unquoted key, a string in single quotes, NaN or Infinity, a sign +, a
\* hexadecimal number, a comma before a closing brace or bracket.
IsExtension(toks, i) ==
    \/ toks[i].Type \in {TokenComment, TokenInlineComment, TokenIdentifier, TokenPlus}
    \/ toks[i].Type = TokenString /\ Head(toks[i].Raw) = "'"
    \/ /\ toks[i].Type = TokenNumber
       /\ \/ toks[i].Raw \in {<<"N", "a", "N">>, <<"I", "n", "f", "i", "n", "i", "t", "y">>}
          \/ Len(toks[i].Raw) >= 2 /\ SubSeq(toks[i].Raw, 1, 2) \in {<<"0", "x">>, <<"0", "X">>}
    \/ /\ toks[i].Type = TokenComma
       /\ TokenAt(toks, parserNext(toks, i + 1)).Type \in {TokenRBrace, TokenRSquare}

HasExtension(toks) == \E i \in 1 .. Len(toks) : IsExtension(toks, i)

\* C17: what an encoder with the JSON option writes has none of the
\* extensions of JSON5, for a value (fresh mode) and for a parsed tree
\* (replay mode).
C17_JsonModeWritesJson ==
    /\ dest.pc = "encoded5" /\ dest.json => ~HasExtension(newLexer(input))
    /\ dest.pc = "replayed5" /\ dest.json => ~HasExtension(newLexer(output.text))

\* The value decoded from a text holds, where the value encoded holds a
\* float, a float (and no integer) that is the same number; naming is the
\* naming convention of the encoder, which names the fields of a record.
RECURSIVE ReadsBack(_, _, _)
ReadsBack(decoded, val, toml) ==
    CASE val.k = "float64" ->
            decoded.k = "float" /\ ReadFloat(decoded.s) = MakeFloat64(val)
      [] val.k = "list" ->
            /\ decoded.k = "list" /\ Len(decoded.l) = Len(val.elems)
            /\ \A i \in 1 .. Len(val.elems) : ReadsBack(decoded.l[i], val.elems[i], toml)
      [] val.k = "map" ->
            /\ decoded.k = "map"
            /\ \A i \in 1 .. Len(val.keys) :
                  /\ KeyStr(val.keys[i].text) \in DOMAIN decoded.m
                  /\ ReadsBack(decoded.m[KeyStr(val.keys[i].text)], val.elems[i], toml)
      [] val.k = "struct" ->
            /\ decoded.k = "map"
            /\ \A i \in 1 .. Len(val.fields) :
                  LET key == KeyStr(IF toml THEN SnakeCase(val.fields[i].Name)
                                    ELSE CamelCase(val.fields[i].Name))
                  IN  /\ key \in DOMAIN decoded.m
                      /\ ReadsBack(decoded.m[key], val.fields[i].Value, toml)
      [] OTHER -> TRUE

\* C18: a finite float is encoded, in TOML and in JSON5 (with and without
\* the JSON option), as a text that the decoder of the format reads back as
\* a float and not as an integer, with the same value: the text of a float
\* that has no fraction and no exponent (5.0, 120.0, 0.0) gets a trailing
\* ".0".
C18_FloatsStayFloats ==
    dest.pc # "off" /\ dest.value \in FreshFloatDocs =>
        /\ dest.pc \notin {"failed", "failed5"}
        /\ dest.pc = "encoded" /\ output.decoded =>
              output.err = "" /\ ReadsBack(output.value, dest.value, TRUE)
        /\ dest.pc \in {"decoded5", "replayed5"} =>
              output.err = "" /\ ReadsBack(output.value, dest.value, FALSE)

\* The float 5 has been encoded by the JSON5 encoder as 5.0 and read back
\* as a float; the TOML encoder writes it as 5.0 too.
C18_Witness ==
    /\ dest.pc = "decoded5"
    /\ dest.value = MapOf(<<Key(<<"a">>, "")>>, <<Float64Of(FALSE, <<"5">>, 1)>>)
    /\ FormatG(Float64Of(FALSE, <<"5">>, 1)) = <<"5">>
    /\ input = <<"{", "\n", " ", " ", "a", ":", " ", "5", ".", "0", ",", "\n", "}", "\n">>
    /\ output.value.m[KeyStr(<<"a">>)] = FloatValue(<<"5", ".", "0">>)
    /\ reflectMarshal(NewEncoder, dest.value).out = <<"a", " ", "=", " ", "5", ".", "0", "\n">>

\* The elements the value of PATH splits into.
PathList == SplitList(env.environ[PATH].value, <<>>)

\* A value is found for the slice field Path: the overlay looks names up,
\* and PATH, the env key of the field, is defined.
PathFound == env.names # <<>> /\ env.environ[PATH].defined

\* C30: when a value is found for the slice field, the overlay completes,
\* with a result or an error, without indexing outside the slice or outside
\* the list of elements, for every length the files gave the slice and every
\* number of elements of the value; without an error the elements of the
\* value are the elements of the slice, in order, a shorter slice being
\* grown.
C30_SliceOverlayCompletes ==
    dest.pc = "done" /\ PathFound =>
        /\ dest.err # PanicIndex
        /\ dest.err = "" /\ Len(PathList) >= Len(PathOf(dest.file).elems) =>
              PathOf(dest.value).elems = [i \in 1 .. Len(PathList) |-> StringOf(PathList[i])]

(***************************************************************************)
(* Properties of the lexer engine.                                         *)
(***************************************************************************)
\* The tokens that end a run of the lexer.
Terminal(tok) == tok.type \in {TokenError, TokenEOF}

\* What parser.Next receives when it has taken every token that was sent.
NextAfterEnd == pNext(View.p, {})

\* C23: a run of the lexer sends at most one error token; an error token or
\* an end-of-input token is the last token sent, and after it the state
\* function is nil, no state function runs and no rune is read (the lexer
\* does not change), and a call of Next that finds no token left returns the
\* empty end-of-input token at once.
C23_LexerStops ==
    /\ [](/\ \A i \in 1 .. Len(lexer.tokens) :
                Terminal(lexer.tokens[i]) => i = Len(lexer.tokens) /\ lexer.closed
          /\ lexer.closed =>
                /\ lexer.state = "nil"
                /\ Terminal(Last(lexer.tokens))
                /\ parser.p.i = Len(lexer.tokens) /\ parser.p.prev = <<>> =>
                      /\ NextAfterEnd.err = NoErr
                      /\ NextAfterEnd.token = ZeroToken
                      /\ ZeroToken.type = TokenEOF /\ ZeroToken.raw = <<>>)
    /\ [][lexer.closed => lexer' = lexer]_vars

\* C23, witness: the lexer sent tokens and then an error token, and the
\* parser has returned the error.
C23_Witness ==
    /\ lexer.closed
    /\ Len(lexer.tokens) >= 3
    /\ Last(lexer.tokens).type = TokenError
    /\ parser.pc = "done" /\ ~parser.returned
    /\ parser.p.i = Len(lexer.tokens)

\* The end-of-input tokens the lexer has sent.
EofTokens == {i \in 1 .. Len(lexer.tokens) : lexer.tokens[i].type = TokenEOF}

\* C29: the raw text of an end-of-input token is empty, the runes read
\* before the end of the input being in the tokens before it; and a document
\* that the parser accepts is the text of the tokens before the end-of-input
\* token, so that no rune is dropped.
C29_EofTokenIsEmpty ==
    /\ \A i \in EofTokens : lexer.tokens[i].raw = <<>>
    /\ parser.pc = "done" /\ parser.returned =>
          \A i \in EofTokens : RawOf(SubSeq(lexer.tokens, 1, i - 1)) = input

\* The line is under an entry of an array of tables: the path of its table,
\* or its own path if it is a "[p]" header, goes through an index.
UnderEntry(r) ==
    \E n \in 1 .. Len(r.fq) - 1 : r.fq[n].int

IsPrefix(s, t) == Len(s) <= Len(t) /\ s = SubSeq(t, 1, Len(s))

\* An earlier line defined the path of line j or a path through it: the
\* same header, or an assignment whose path meets the one of line j.
DefinedBefore(j) ==
    {i \in 1 .. j - 1 :
        \/ Ref[i].kind = "table" /\ Ref[j].kind = "table" /\ Ref[i].fq = Ref[j].fq
        \/ Ref[i].kind = "assign" /\ Ref[j].kind \in {"assign", "table"}
           /\ (IsPrefix(Ref[i].fq, Ref[j].fq) \/ IsPrefix(Ref[j].fq, Ref[i].fq))
        \/ Ref[i].kind = "table" /\ Ref[j].kind = "assign"
           /\ IsPrefix(Ref[j].fq, Ref[i].fq)}

\* C26: what is defined under an entry of an array of tables is scoped to
\* the entry.  A "[p]" header or an assignment under an entry whose
\* fully-qualified path, the index of the entry included, no earlier line
\* defined is accepted, whatever the entries before it hold under the same
\* written keys; a "[p]" header written twice under the same entry fails
\* with a DuplicateKeyError.
C26_EntryScope ==
    parser.pc = "done" => \A j \in 1 .. Len(Ref) :
        Ref[j].kind \in {"table", "assign"} /\ UnderEntry(Ref[j]) /\ ParsedTo(j) =>
            /\ DefinedBefore(j) = {} => parser.returned \/ parser.err.cursor.line # j
            /\ Ref[j].kind = "table" =>
                  \A i \in 1 .. j - 1 :
                      Ref[i].kind = "table" /\ Ref[i].fq = Ref[j].fq =>
                          DuplicateAt(j, Ref[i].pos)

\* C26, witness: the document "[[a]]", "[a.b]", "[[a]]", "[a.b]" is parsed
\* and decoded: a holds two tables, each with its own b.
C26_Witness ==
    /\ input = <<"[", "[", "a", "]", "]", "\n", "[", "a", ".", "b", "]", "\n",
                 "[", "[", "a", "]", "]", "\n", "[", "a", ".", "b", "]", "\n">>
    /\ parser.pc = "done" /\ parser.returned
    /\ output.decoded /\ output.err = ""
    /\ Ref[2].fq = <<KeyStr(<<"a">>), KeyIdx(0), KeyStr(<<"b">>)>>
    /\ Ref[4].fq = <<KeyStr(<<"a">>), KeyIdx(1), KeyStr(<<"b">>)>>
    /\ Len(ValueAt(output.value, <<KeyStr(<<"a">>)>>).l) = 2
    /\ ValueAt(output.value, Ref[2].fq).k = "map"
    /\ ValueAt(output.value, Ref[4].fq).k = "map"

(***************************************************************************)
(* The JSON5 lexer on the lexer engine: its state functions on a Lexer,    *)
(* with the runes it reads and puts back and the tokens it sends.  The     *)
(* field blankLine of its lexerState is kept with the lexer.               *)
(***************************************************************************)
Json5States == {"json5.lex", "json5.lexString(\")", "json5.lexString(')",
                "json5.lexIdentifier", "json5.lexBlockComment",
                "json5.lexHex", "json5.lexNumber"}

\* A state function returns: next is the state function it returns, and the
\* function deferred in lex has stored blankLine.
Returns(l, next, blankLine) ==
    IF l.state = "nil" THEN [l EXCEPT !.blankLine = blankLine]
    ELSE [l EXCEPT !.state = next, !.blankLine = blankLine]

\* lexerState.lex, case '\r': next is the rune that follows.
lexCR5(next) ==
    IF next.err = EOF THEN Error(Emit(next.l, TokenNewline, NoValue), EOF)
    ELSE IF next.err # "" THEN Error(next.l, next.err)
    ELSE Emit(IF next.r # "\n" THEN UnreadRune(next.l) ELSE next.l,
              TokenNewline, NoValue)

\* lexerState.lex, case '0': next is the rune that follows.
lexZero5(next) ==
    IF next.err = EOF THEN Error(Emit(next.l, TokenNumber, UnknownValue), EOF)
    ELSE IF next.err # "" THEN Error(next.l, next.err)
    ELSE IF next.r \in {"x", "X"} THEN [next.l EXCEPT !.state = "json5.lexHex"]
    ELSE IF next.r \in {".", "e", "E"}
    THEN [UnreadRune(UnreadRune(next.l)) EXCEPT !.state = "json5.lexNumber"]
    ELSE IF next.r \in Digits THEN Error(next.l, "parsing integer: unexpected character")
    ELSE Emit(next.l, TokenNumber, UnknownValue)

\* lexerState.lex, case '/' followed by '/': c is the run up to the line
\* break.
lexLineComment5(c, blankLine) ==
    IF c.err # "" /\ c.err # EOF THEN Error(c.l, c.err)
    ELSE Emit(c.l, IF blankLine THEN TokenComment ELSE TokenInlineComment,
              StrValue(TrimSpace(c.s)))

\* lexerState.lex, case '/': next is the rune that follows.
lexSlash5(next, blankLine) ==
    IF next.err # "" THEN Error(next.l, UnexpectedIfEOF(next.err))
    ELSE IF next.r = "/"
    THEN lexLineComment5(AcceptUntil(next.l, Runes \ LineBreaks), blankLine)
    ELSE IF next.r = "*" THEN [next.l EXCEPT !.state = "json5.lexBlockComment"]
    ELSE Error(next.l, "unexpected character")

\* lexerState.lex, the loop over the blanks: the lexer after the loop, with
\* state.blankLine, or the lexer closed by the end of the input.
RECURSIVE lexSpaces5(_)
lexSpacesRune5(l, rd) ==
    IF rd.err = EOF THEN Error(Emit(rd.l, TokenWhitespace, NoValue), EOF)
    ELSE IF rd.err # "" THEN Error(rd.l, rd.err)
    ELSE IF rd.r \in LineBreaks
    THEN Emit([UnreadRune(rd.l) EXCEPT !.blankLine = TRUE], TokenWhitespace, NoValue)
    ELSE IF rd.r \notin Blanks
    THEN Emit(UnreadRune(rd.l), TokenWhitespace, NoValue)
    ELSE lexSpaces5(rd.l)

lexSpaces5(l) == lexSpacesRune5(l, ReadRune(l))

\* lexerState.lex on the rune r it read.
lexRune5(l, r) ==
    CASE r \in DOMAIN Punctuation ->
            Returns(Emit(l, Punctuation[r], NoValue), "json5.lex", FALSE)
      [] r = "\"" -> Returns(UnreadRune(l), "json5.lexString(\")", FALSE)
      [] r = "'" -> Returns(UnreadRune(l), "json5.lexString(')", FALSE)
      [] r = "\n" -> Returns(Emit(l, TokenNewline, NoValue), "json5.lex", FALSE)
      [] r = "\r" -> Returns(lexCR5(ReadRune(l)), "json5.lex", FALSE)
      [] r = "0" ->
            LET z == lexZero5(ReadRune(l))
            IN  Returns(z, IF z.state = "json5.lex" THEN "json5.lex" ELSE z.state, FALSE)
      [] r \in (Digits \ {"0"}) \cup {"."} ->
            Returns(UnreadRune(l), "json5.lexNumber", FALSE)
      [] r = "/" ->
            LET s == lexSlash5(ReadRune(l), l.blankLine)
            IN  IF s.state = "json5.lexBlockComment"
                THEN Returns(s, "json5.lexBlockComment", l.blankLine)
                ELSE Returns(s, "json5.lex", FALSE)
      [] r \in Blanks ->
            LET s == lexSpaces5(l)
            IN  Returns(s, "json5.lex", IF s.state = "nil" THEN FALSE ELSE s.blankLine)
      [] json5IsIdentifierChar(r, 0) ->
            Returns(UnreadRune(l), "json5.lexIdentifier", FALSE)
      [] OTHER -> Returns(Error(l, "unexpected character"), "json5.lex", FALSE)

\* lexerState.lex
lex5(l) ==
    LET rd == ReadRune(l)
    IN  IF rd.err # "" THEN Error(rd.l, rd.err) ELSE lexRune5(rd.l, rd.r)

\* lexerState.lexString: the closure it returns, after the delimiter.
RECURSIVE lexStringLoop5(_, _, _)
lexStringCR5(lf, delim, val) ==
    IF lf.err # "" THEN Error(lf.l, UnexpectedIfEOF(lf.err))
    ELSE IF lf.r = "\n" THEN lexStringLoop5(lf.l, delim, Append(val, lf.r))
    ELSE lexStringLoop5(UnreadRune(lf.l), delim, val)

lexStringUnicode5(u, delim, val) ==
    IF u.err # "" THEN Error(u.l, u.err)
    ELSE lexStringLoop5(u.l, delim, Append(val, CodepointRune(ParseDigits(u.s, 16, 0))))

lexStringEscape5(next, delim, val) ==
    IF next.err # "" THEN Error(next.l, UnexpectedIfEOF(next.err))
    ELSE IF next.r \in {"\n", "\\", delim}
    THEN lexStringLoop5(next.l, delim, Append(val, next.r))
    ELSE IF next.r = "\r"
    THEN lexStringCR5(ReadRune(next.l), delim, Append(val, next.r))
    ELSE IF next.r \in {"b", "f", "n", "r", "t"}
    THEN lexStringLoop5(next.l, delim, Append(val, EscapeRune(next.r)))
    ELSE IF next.r = "u"
    THEN lexStringUnicode5(parseUnicodeEscape(next.l, 4, <<>>), delim, val)
    ELSE lexStringLoop5(next.l, delim, val)

lexStringRune5(rd, delim, val) ==
    IF rd.err # "" THEN Error(rd.l, UnexpectedIfEOF(rd.err))
    ELSE IF rd.r = delim
    THEN [Emit(rd.l, TokenString, StrValue(val)) EXCEPT !.state = "json5.lex"]
    ELSE IF rd.r \in LineBreaks THEN Error(rd.l, "unexpected newline")
    ELSE IF rd.r = "\\" THEN lexStringEscape5(ReadRune(rd.l), delim, val)
    ELSE lexStringLoop5(rd.l, delim, Append(val, rd.r))

lexStringLoop5(l, delim, val) == lexStringRune5(ReadRune(l), delim, val)

lexString5(l, delim) ==
    LET a == AcceptRune(l, delim)
    IN  IF a.err # "" THEN Error(a.l, a.err) ELSE lexStringLoop5(a.l, delim, <<>>)

\* lexerState.lexIdentifier: the loop, i the number of characters read and
\* ident the name; then the switch on the text of the token.
RECURSIVE lexIdentifierLoop5(_, _, _)
lexIdentifierEnd5(l, ident) ==
    [Emit(l,
          CASE l.token \in {<<"I", "n", "f", "i", "n", "i", "t", "y">>, <<"N", "a", "N">>}
                  -> TokenNumber
            [] l.token = <<"n", "u", "l", "l">> -> TokenNil
            [] l.token \in {<<"t", "r", "u", "e">>, <<"f", "a", "l", "s", "e">>} -> TokenBool
            [] OTHER -> TokenIdentifier,
          CASE l.token \in {<<"I", "n", "f", "i", "n", "i", "t", "y">>, <<"N", "a", "N">>}
                  -> UnknownValue
            [] l.token = <<"n", "u", "l", "l">> -> NoValue
            [] l.token = <<"t", "r", "u", "e">> -> BoolValue(TRUE)
            [] l.token = <<"f", "a", "l", "s", "e">> -> BoolValue(FALSE)
            [] OTHER -> StrValue(ident))
     EXCEPT !.state = "json5.lex"]

lexIdentifierUnicode5(u, i, ident) ==
    IF u.err # "" THEN Error(u.l, u.err)
    ELSE lexIdentifierLoop5(u.l, i + 1,
                            Append(ident, CodepointRune(ParseDigits(u.s, 16, 0))))

lexIdentifierEscape5(a, i, ident) ==
    IF a.err # "" THEN Error(a.l, a.err)
    ELSE lexIdentifierUnicode5(parseUnicodeEscape(a.l, 4, <<>>), i, ident)

lexIdentifierRune5(rd, i, ident) ==
    IF rd.err = EOF THEN lexIdentifierEnd5(rd.l, ident)
    ELSE IF rd.err # "" THEN Error(rd.l, rd.err)
    ELSE IF ~json5IsIdentifierChar(rd.r, i) THEN lexIdentifierEnd5(UnreadRune(rd.l), ident)
    ELSE IF rd.r = "\\" THEN lexIdentifierEscape5(AcceptRune(rd.l, "u"), i, ident)
    ELSE lexIdentifierLoop5(rd.l, i + 1, Append(ident, rd.r))

lexIdentifierLoop5(l, i, ident) == lexIdentifierRune5(ReadRune(l), i, ident)

lexIdentifier5(l) == lexIdentifierLoop5(l, 0, <<>>)

\* lexerState.lexBlockComment
RECURSIVE lexBlockComment5(_)
lexBlockStar5(next) ==
    IF next.err # "" THEN Error(next.l, UnexpectedIfEOF(next.err))
    ELSE IF next.r = "/"
    THEN [Emit(next.l, TokenComment,
               StrValue(TrimSpace(SubSeq(next.l.token, 3, Len(next.l.token) - 2))))
          EXCEPT !.state = "json5.lex"]
    ELSE lexBlockComment5(UnreadRune(next.l))

lexBlockRune5(rd) ==
    IF rd.err # "" THEN Error(rd.l, UnexpectedIfEOF(rd.err))
    ELSE IF rd.r = "*" THEN lexBlockStar5(ReadRune(rd.l))
    ELSE lexBlockComment5(rd.l)

lexBlockComment5(l) == lexBlockRune5(ReadRune(l))

\* lexerState.lexHex
lexHex5(l) ==
    LET a == AcceptUntil(l, Lower \cup Upper \cup Digits)
    IN  IF a.err # "" THEN Error(a.l, a.err)
        ELSE IF a.s = <<>> \/ \E n \in 1 .. Len(a.s) :
                                  a.s[n] \notin HexDigits
        THEN Error(a.l, "invalid hexadecimal integer")
        ELSE [Emit(a.l, TokenNumber, IntValue(ParseDigits(a.s, 16, 0)))
              EXCEPT !.state = "json5.lex"]

\* lexerState.lexNumber
lexNumber5(l) ==
    LET a == AcceptUntil(l, Digits \cup {"e", "E", "+", "-", "."})
        num == IF a.s = <<>> THEN <<"0">> ELSE a.s
    IN  IF a.err # "" THEN Error(a.l, a.err)
        ELSE IF ContainsAny(num, {"e", "E", "+", "-", "."})
        THEN (IF Matches(rfloat5, num)
              THEN [Emit(a.l, TokenNumber, FloatValue(num)) EXCEPT !.state = "json5.lex"]
              ELSE Error(a.l, "big.ParseFloat: invalid syntax"))
        ELSE [Emit(a.l, TokenNumber, IntValue(ParseDigits(num, 10, 0)))
              EXCEPT !.state = "json5.lex"]

\* One turn of the default branch of Lexer.Next for the JSON5 lexer: the
\* token channel is empty and the current state function runs.
json5State(l) ==
    LET l0 == [l EXCEPT !.burst = 0]
    IN  CASE l.state = "json5.lex" -> lex5(l0)
          [] l.state = "json5.lexString(\")" -> lexString5(l0, "\"")
          [] l.state = "json5.lexString(')" -> lexString5(l0, "'")
          [] l.state = "json5.lexIdentifier" -> lexIdentifier5(l0)
          [] l.state = "json5.lexBlockComment" -> lexBlockComment5(l0)
          [] l.state = "json5.lexHex" -> lexHex5(l0)
          [] l.state = "json5.lexNumber" -> lexNumber5(l0)

\* newLexer of the JSON5 package: the state starts on a blank line.
json5NewLexer(in) == NewLexer(in, "json5.lex") @@ [blankLine |-> TRUE]

(***************************************************************************)
(* The two lexers alone, on every short text: a caller calls Lexer.Next    *)
(* until it has received the token that follows the close of the channel.  *)
(* parser holds the caller: the grammar, the number of tokens it received, *)
(* the number of state functions the current call of Next has run, and     *)
(* whether it received the zero token of the closed channel.               *)
(***************************************************************************)
MaxText == 4

TomlAlphabet == {"1", ".", "a", "=", "[", "]", "\"", "'", "#", " ", "\n", "\r"}
Json5Alphabet == {"0", "1", ".", "e", "x", "a", "\"", "/", "*", " ", "\n", "\r"}

Texts(alphabet) == UNION {[1 .. n -> alphabet] : n \in 0 .. MaxText}

\* Longer texts, for the strings, the escapes, the comments and the numbers.
TomlSamples ==
    {<<"\"", "\"", "\"", "a", "\"", "\"", "\"", "\n">>,
     <<"'", "'", "'", "a", "'", "'", "'", "'">>,
     <<"\"", "\"", "\"", "a", "\\", "\n", " ", "b", "\"", "\"", "\"">>,
     <<"\"", "\\", "u", "0", "0", "4", "1", "\"">>,
     <<"\"", "\\", "n", "\\", "x", "\"">>,
     <<"a", " ", "=", " ", "1", ".", "5", "e", "1", "\n">>,
     <<"a", " ", "=", " ", "0", "x", "1", "F", "\n">>,
     <<"[", "[", "a", ".", "b", "]", "]", "\n">>,
     <<"1", "9", "7", "9", "-", "0", "5", "-", "2", "7", "T", "0", "7", ":", "3", "2", ":", "0", "0", "Z">>,
     <<"0", "7", ":", "3", "2", ":", "0", "0">>,
     <<"a", " ", "=", " ", "[", "1", ",", "\r", "\n", " ", "2", "]", " ", "#", " ", "c", "\r", "\n">>,
     <<"a", " ", "=", " ", "{", "b", " ", "=", " ", "t", "r", "u", "e", "}", "\n">>,
     <<"a", " ", "=", " ", "+", "i", "n", "f", "\n">>,
     <<"1", ".", "a", " ", "=", " ", "1", "\n">>,
     <<"\"", "\"", "\"", "\"", "\"", "\"">>,
     <<"a", ".", "'", "b", "'", " ", "=", " ", "'", "c", "'", "\n">>}

Json5Samples ==
    {<<"0", ".", "5">>,
     <<"0", "e", "1", ",">>,
     <<"0", "x", "1", "F">>,
     <<"0", " ">>,
     <<"/", "*", " ", "a", " ", "*", "*", "/", " ", "1">>,
     <<"/", "/", " ", "c", "\r", "\n", "1">>,
     <<"\"", "a", "\\", "\r", "\n", "b", "\"">>,
     <<"\"", "\\", "u", "0", "0", "4", "1", "\\", "n", "\\", "q", "\"">>,
     <<"a", "\\", "u", "0", "0", "4", "1", ":", " ", "1">>,
     <<"{", "a", ":", " ", "0", ".", "5", ",", " ", "b", ":", " ", "[", "1", "]", "}">>,
     <<"'", "a", "\"", "'">>,
     <<" ", "\t", "\r", "\n", " ", "/", "*">>,
     <<"I", "n", "f", "i", "n", "i", "t", "y">>,
     <<"-", "N", "a", "N">>,
     <<"t", "r", "u", "e", " ", "f", "a", "l", "s", "e", " ", "n", "u", "l", "l">>,
     <<"0", "1">>,
     <<".", "5", "e", "+", "1">>,
     <<"1", ".", "e">>,
     <<" ", "/", "/", " ", "c">>}

NewCaller(grammar) == [pc |-> "next", grammar |-> grammar, received |-> 0,
                       turns |-> 0, end |-> FALSE]

LexInit ==
    /\ \E grammar \in {"toml", "json5"} :
          /\ input \in IF grammar = "toml" THEN Texts(TomlAlphabet) \cup TomlSamples
                       ELSE Texts(Json5Alphabet) \cup Json5Samples
          /\ lexer = IF grammar = "toml" THEN NewLexer(input, "lex")
                     ELSE json5NewLexer(input)
          /\ parser = NewCaller(grammar)
    /\ output = NoOutput
    /\ env = NoEnv
    /\ dest = NoDest

ChannelEmpty == parser.received = Len(lexer.tokens)

\* Lexer.Next, "case token := <-l.tokens" on a token that was sent.
LexReceive ==
    /\ parser.pc = "next" /\ ~ChannelEmpty
    /\ parser' = [parser EXCEPT !.received = @ + 1, !.turns = 0]
    /\ UNCHANGED <<input, lexer, output, env, dest>>

\* Lexer.Next, "case token := <-l.tokens" on the closed channel: the zero
\* token.
LexReceiveClosed ==
    /\ parser.pc = "next" /\ ChannelEmpty /\ lexer.closed
    /\ parser' = [parser EXCEPT !.pc = "done", !.end = TRUE, !.turns = 0]
    /\ UNCHANGED <<input, lexer, output, env, dest>>

\* Lexer.Next, "default: l.state = l.state(l)" of the TOML lexer.
LexTomlState ==
    /\ parser.pc = "next" /\ parser.grammar = "toml"
    /\ ChannelEmpty /\ ~lexer.closed /\ lexer.panic = ""
    /\ lexer' = tomlState(lexer)
    /\ parser' = [parser EXCEPT !.turns = @ + 1]
    /\ UNCHANGED <<input, output, env, dest>>

\* Lexer.Next, "default: l.state = l.state(l)" of the JSON5 lexer.
LexJson5State ==
    /\ parser.pc = "next" /\ parser.grammar = "json5"
    /\ ChannelEmpty /\ ~lexer.closed /\ lexer.panic = ""
    /\ lexer' = json5State(lexer)
    /\ parser' = [parser EXCEPT !.turns = @ + 1]
    /\ UNCHANGED <<input, output, env, dest>>

LexNext ==
    \/ LexReceive
    \/ LexReceiveClosed
    \/ LexTomlState
    \/ LexJson5State

SpecLex == LexInit /\ [][LexNext]_vars

(***************************************************************************)
(* Regexp.Accept against the longest match.                                *)
(***************************************************************************)
\* The runes the lexer has yet to read: those put back, then the input left.
Rest(l) == Pending(l) \o l.Input

\* The lengths of the non-empty prefixes of rest that match re, and the
\* longest of them (0 when none matches).
MatchLens(re, rest) == {n \in 1 .. Len(rest) : Matches(re, SubSeq(rest, 1, n))}
LongestMatch(re, rest) ==
    IF MatchLens(re, rest) = {} THEN 0
    ELSE CHOOSE n \in MatchLens(re, rest) : \A m \in MatchLens(re, rest) : m <= n

\* The lexer is about to run lexNumberOrDateOrKey, which calls reNDK.Accept.
AtAccept ==
    /\ parser.pc = "next" /\ parser.grammar = "toml"
    /\ ChannelEmpty /\ ~lexer.closed
    /\ lexer.state = "lexNumberOrDateOrKey"

\* The number of runes Regexp.Accept leaves consumed.
Used(a) == Len(Rest(lexer)) - Len(Rest(a.l))

\* C24: Regexp.Accept consumes exactly the longest prefix of the remaining
\* input that matches the pattern and returns it: when a non-empty prefix
\* matches it succeeds with the longest one, and with or without an error it
\* consumes no rune beyond the longest match.
C24_LongestMatch ==
    AtAccept =>
        LET a == RegexpAccept(lexer, reNDK)
            n == LongestMatch(reNDK, Rest(lexer))
        IN  /\ Used(a) <= n
            /\ n > 0 => a.err = "" /\ a.s = SubSeq(Rest(lexer), 1, n) /\ Used(a) = n

(***************************************************************************)
(* The back-buffer under the two lexers.                                   *)
(***************************************************************************)
BackbufferPanics ==
    {"can't write into backbuffer while there are unread runes",
     "no runes in backbuffer",
     "can't unread more bytes than backbuffer capacity",
     "can't unread more bytes than backbuffer length",
     "bytes.Buffer: truncation out of range"}

\* C25: a pushback of 2 runes is enough for both grammars: on every input
\* no state function of the TOML or of the JSON5 lexer puts a rune back when
\* 2 are pending, or puts back more runes than were read, or reads from the
\* input while runes are pending; the back-buffer holds at most 2 pending
\* runes at all times, all of them read before.
C25_PushbackSuffices ==
    /\ lexer.panic \notin BackbufferPanics
    /\ lexer.rlen \in 0 .. BackbufferLen
    /\ lexer.unread = lexer.rlen
    /\ Len(Rest(lexer)) <= Len(input)
    /\ \A k \in 1 .. lexer.rlen : lexer.buf[inc(lexer.widx, 0 - k) + 1].w # 0

\* The JSON5 lexer has read "0." and put both runes back for lexNumber.
C25_Witness ==
    /\ parser.grammar = "json5"
    /\ input = <<"0", ".", "5">>
    /\ lexer.state = "json5.lexNumber" /\ lexer.rlen = 2
    /\ Pending(lexer) = <<"0", ".">>

(***************************************************************************)
(* The calls of Lexer.Next.                                                *)
(***************************************************************************)
\* The states the state functions return to after a token.
Dispatch == {"lex", "json5.lex"}

\* "default: l.state = l.state(l)" of either lexer.
StateStep == LexTomlState \/ LexJson5State

Sent == Len(lexer.tokens)

MaxOuterFields == 2
MaxInnerFields == 2

PlainField(name, tagname) ==
    [Name |-> name, Unexported |-> FALSE, Anonymous |-> FALSE,
     TagName |-> tagname, Ignore |-> FALSE, Inline |-> FALSE, Fields |-> <<>>]

FieldX == PlainField(<<"X">>, <<>>)

\* X, Y, a field named "x" by its tag, an unexported field and an ignored
\* field.
LeafFields ==
    {FieldX,
     PlainField(<<"Y">>, <<>>),
     PlainField(<<"Z">>, <<"x">>),
     [FieldX EXCEPT !.Unexported = TRUE],
     [FieldX EXCEPT !.Ignore = TRUE]}

StructsOf(fields, n) == UNION {[1 .. k -> fields] : k \in 1 .. n}

\* An embedded struct, and a named struct field with the inline option.
Embedded(fields) ==
    [Name |-> <<"I", "n", "n", "e", "r">>, Unexported |-> FALSE, Anonymous |-> TRUE,
     TagName |-> <<>>, Ignore |-> FALSE, Inline |-> FALSE, Fields |-> fields]
Inlined(fields) ==
    [Name |-> <<"S", "u", "b">>, Unexported |-> FALSE, Anonymous |-> FALSE,
     TagName |-> <<>>, Ignore |-> FALSE, Inline |-> TRUE, Fields |-> fields]

\* The fields of an inner struct: leaves, and embedded structs of one leaf.
InnerFields == LeafFields \cup {Embedded(<<f>>) : f \in LeafFields}

OuterFields ==
    LeafFields
        \cup {Embedded(s) : s \in StructsOf(InnerFields, MaxInnerFields)}
        \cup {Inlined(<<f>>) : f \in LeafFields}

RecordTypes == StructsOf(OuterFields, MaxOuterFields)

\* A StructField of the walk: the key it resolved to and its Index from the
\* top-level value.
WalkedField(key, idx) == [Key |-> key, Index |-> idx]

NoFields == [k \in {} |-> WalkedField(<<>>, <<>>)]

NewWalk(typ) ==
    [pc |-> "walk", stack |-> <<[typ |-> typ, i |-> 1, index |-> <<>>]>>,
     fields |-> NoFields, order |-> <<>>, visible |-> <<>>]

FieldsInit ==
    /\ input \in RecordTypes
    /\ lexer = NewLexer(<<>>, "lex")
    /\ parser = NewParse
    /\ output = NoOutput
    /\ env = NoEnv
    /\ dest = NewWalk(input)

CurFrame == Last(dest.stack)
CurField == CurFrame.typ[CurFrame.i]
CurIdx == Append(CurFrame.index, CurFrame.i)
InLoop == dest.pc = "walk" /\ CurFrame.i <= Len(CurFrame.typ)

\* "continue": the loop of the current call goes to its next field.
Continue(w) == [w EXCEPT !.stack[Len(w.stack)].i = @ + 1]

\* opts.Name, or opts.Naming.Format(field.Name) when the tag names nothing.
KeyOf(field) == IF field.TagName # <<>> THEN field.TagName ELSE CamelCase(field.Name)

\* walkFields, an iteration on a private or ignored field.
WalkSkip ==
    /\ InLoop
    /\ CurField.Unexported \/ CurField.Ignore
    /\ dest' = Continue(dest)
    /\ UNCHANGED <<input, lexer, parser, output, env>>

\* walkFields, an iteration on an embedded or inlined field: the call of
\* walkFields on its type.
WalkInto ==
    /\ InLoop
    /\ ~(CurField.Unexported \/ CurField.Ignore)
    /\ (CurField.Anonymous /\ CurField.TagName = <<>>) \/ CurField.Inline
    /\ dest' = [dest EXCEPT !.stack = Append(@, [typ |-> CurField.Fields, i |-> 1,
                                                 index |-> CurIdx])]
    /\ UNCHANGED <<input, lexer, parser, output, env>>

\* The field registered: fields[opts.Name] = structfield and
\* order = append(order, structfield).
Register(w, key, idx) ==
    Continue([w EXCEPT !.fields = Put(w.fields, key, WalkedField(key, idx)),
                       !.order = Append(w.order, WalkedField(key, idx))])

\* The switch on a name that fields holds already.  existing is a copy of
\* the entry of the map: "existing.Index = nil" changes neither the map nor
\* the ordered list.
Shadow(w, key, idx, existing) ==
    IF Len(existing.Index) = Len(idx) THEN Continue(w)
    ELSE IF Len(existing.Index) > Len(idx) THEN Register(w, key, idx)
    ELSE Continue(w)

\* walkFields, an iteration on a field that has a key.
WalkField ==
    /\ InLoop
    /\ ~(CurField.Unexported \/ CurField.Ignore)
    /\ ~((CurField.Anonymous /\ CurField.TagName = <<>>) \/ CurField.Inline)
    /\ dest' = IF KeyOf(CurField) \in DOMAIN dest.fields
               THEN Shadow(dest, KeyOf(CurField), CurIdx, dest.fields[KeyOf(CurField)])
               ELSE Register(dest, KeyOf(CurField), CurIdx)
    /\ UNCHANGED <<input, lexer, parser, output, env>>

\* walkFields returns to the iteration that called it, which continues.
WalkReturn ==
    /\ dest.pc = "walk" /\ CurFrame.i > Len(CurFrame.typ) /\ Len(dest.stack) > 1
    /\ dest' = Continue([dest EXCEPT !.stack = SubSeq(@, 1, Len(@) - 1)])
    /\ UNCHANGED <<input, lexer, parser, output, env>>

\* VisibleFields after walkFields: the fields with nil indices are removed.
WalkFilter ==
    /\ dest.pc = "walk" /\ CurFrame.i > Len(CurFrame.typ) /\ Len(dest.stack) = 1
    /\ dest' = [dest EXCEPT !.pc = "done", !.stack = <<>>,
                            !.visible = SelectSeq(dest.order,
                                                  LAMBDA f : f.Index # <<>>)]
    /\ UNCHANGED <<input, lexer, parser, output, env>>

FieldsNext ==
    \/ WalkSkip
    \/ WalkInto
    \/ WalkField
    \/ WalkReturn
    \/ WalkFilter

SpecFields == FieldsInit /\ [][FieldsNext]_vars


\* C27: the ordered list VisibleFields returns has exactly one entry per
\* resolved key name, the field the by-name map holds for that name: no
\* shadowed field stays in the list, no key is emitted twice.
C27_OneEntryPerKey ==
    dest.pc = "done" =>
        /\ \A n, m \in 1 .. Len(dest.visible) :
               dest.visible[n].Key = dest.visible[m].Key => n = m
        /\ {dest.visible[n].Key : n \in 1 .. Len(dest.visible)} = DOMAIN dest.fields
        /\ \A n \in 1 .. Len(dest.visible) :
               dest.fields[dest.visible[n].Key] = dest.visible[n]

(***************************************************************************)
(* ConfigFile: the configuration files of one name in the search paths.    *)
(* input is the name and the search paths, each path the outcome of        *)
(* fs.Open for the file names of the model; dest is the ConfigFile with    *)
(* the calls of Next made so far.                                          *)
(***************************************************************************)
MaxPaths == 2
MaxCalls == 4

Stem == <<"f">>
ExtToml == <<".", "t">>
ExtJson5 == <<".", "5">>
ExtJson == <<".", "j">>

ErrNotExist == "file does not exist"
ErrPermission == "permission denied"

\* The exts arguments of the model; Decoder.Decode passes the first.
ExtLists == {<<ExtToml, ExtJson5, ExtJson>>, <<ExtJson, ExtToml>>, <<ExtJson5>>}

\* The names given to Open: without and with an extension.
ConfigNames == {Stem, Stem \o ExtToml}

\* A search path: for each file name, a file, no file, or a file that
\* cannot be opened.
FileNames == {Stem \o ExtToml, Stem \o ExtJson5, Stem \o ExtJson}
SearchPaths == [FileNames -> {"file", ErrNotExist, ErrPermission}]

\* fs.FS.Open
FsOpen(path, fname) == IF fname \in DOMAIN path THEN path[fname] ELSE ErrNotExist

\* filepath.Ext: the suffix of the name from its last dot, empty without a
\* dot.
RECURSIVE Ext(_)
Ext(name) ==
    IF name = <<>> THEN <<>>
    ELSE IF Ext(Tail(name)) # <<>> THEN Ext(Tail(name))
    ELSE IF Head(name) = "." THEN name
    ELSE <<>>

NilFile == [path |-> 0, name |-> <<>>, closed |-> FALSE]

\* Open
OpenConfig(name, paths) ==
    [pc |-> "config", fs |-> paths, name |-> name, index |-> 0,
     opened |-> NilFile, calls |-> <<>>]

ConfigInit ==
    /\ input \in [name : ConfigNames,
                  paths : UNION {[1 .. n -> SearchPaths] : n \in 1 .. MaxPaths}]
    /\ lexer = NewLexer(<<>>, "lex")
    /\ parser = NewParse
    /\ output = NoOutput
    /\ env = NoEnv
    /\ dest = OpenConfig(input.name, input.paths)

\* The loops of ConfigFile.Next, at the extension k of exts in the path
\* cfg.index: the ConfigFile and the error returned.
RECURSIVE NextLoop(_, _, _)
\* The switch on the outcome of fs.Open without "cfg.index++".
NextOpenedSamePath(cfg, exts, k, fname, f) ==
    CASE f = ErrNotExist -> NextLoop(cfg, exts, k + 1)
      [] f = "file" ->
            [cfg |-> [cfg EXCEPT !.opened = [path |-> cfg.index + 1, name |-> fname,
                                            closed |-> FALSE]],
             err |-> ""]
      [] OTHER -> [cfg |-> cfg, err |-> f]

\* The switch on the outcome f of fs.Open for the file fname.
NextOpened(cfg, exts, k, fname, f) ==
    CASE f = ErrNotExist -> NextLoop(cfg, exts, k + 1)
      [] f = "file" ->
            [cfg |-> [cfg EXCEPT !.opened = [path |-> cfg.index + 1, name |-> fname,
                                            closed |-> FALSE],
                                 !.index = cfg.index + 1],
             err |-> ""]
      [] OTHER -> [cfg |-> cfg, err |-> f]

NextLoop(cfg, exts, k) ==
    IF cfg.index >= Len(cfg.fs) THEN [cfg |-> cfg, err |-> ErrNotExist]
    ELSE IF k > Len(exts) THEN NextLoop([cfg EXCEPT !.index = cfg.index + 1], exts, 1)
    ELSE LET realext == Ext(cfg.name)
             stem == SubSeq(cfg.name, 1, Len(cfg.name) - Len(realext))
         IN  IF realext # <<>> /\ realext # exts[k] THEN NextLoop(cfg, exts, k + 1)
             ELSE NextOpened(cfg, exts, k, stem \o exts[k],
                             FsOpen(cfg.fs[cfg.index + 1], stem \o exts[k]))

\* ConfigFile.Next: the opened file, if any, is closed first.
ConfigFileNext(cfg, exts) ==
    NextLoop(IF cfg.opened # NilFile THEN [cfg EXCEPT !.opened.closed = TRUE] ELSE cfg,
             exts, 1)

\* The record of a call of Next: its argument, the index it started from,
\* the error it returned and the file that is opened after it.
Call(cfg, exts, ret) ==
    [exts |-> exts, from |-> cfg.index, err |-> ret.err, opened |-> ret.cfg.opened]

\* A call of Next that opens a file.
ConfigNextOpens ==
    /\ dest.pc = "config" /\ Len(dest.calls) < MaxCalls
    /\ \E exts \in ExtLists :
          LET ret == ConfigFileNext(dest, exts)
          IN  /\ ret.err = ""
              /\ dest' = [ret.cfg EXCEPT !.calls = Append(@, Call(dest, exts, ret))]
    /\ UNCHANGED <<input, lexer, parser, output, env>>

\* A call of Next that returns an error: os.ErrNotExist, or the error of
\* fs.Open.
ConfigNextFails ==
    /\ dest.pc = "config" /\ Len(dest.calls) < MaxCalls
    /\ \E exts \in ExtLists :
          LET ret == ConfigFileNext(dest, exts)
          IN  /\ ret.err # ""
              /\ dest' = [ret.cfg EXCEPT !.calls = Append(@, Call(dest, exts, ret))]
    /\ UNCHANGED <<input, lexer, parser, output, env>>

ConfigNext ==
    \/ ConfigNextOpens
    \/ ConfigNextFails

SpecConfig == ConfigInit /\ [][ConfigNext]_vars

(***************************************************************************)
(* Properties of ConfigFile.Next.                                          *)
(***************************************************************************)
\* The stem of the requested name, and the extensions of exts a call may
\* open for it: all of them for a name without an extension, the extension
\* of the name otherwise.
RequestedStem == SubSeq(input.name, 1, Len(input.name) - Len(Ext(input.name)))
AllowedExts(exts) ==
    SelectSeq(exts, LAMBDA e : Ext(input.name) = <<>> \/ Ext(input.name) = e)

\* The files of the requested stem that are in the path p, in the order of
\* exts.
Found(p, exts) ==
    SelectSeq([k \in 1 .. Len(exts) |-> RequestedStem \o exts[k]],
              LAMBDA f : FsOpen(input.paths[p], f) # ErrNotExist)

\* The calls of Next made so far open the files that exts selects.
NextVisits(Exts(_)) ==
    /\ dest.calls = <<>> => dest.opened = NilFile
    /\ \A k \in 1 .. Len(dest.calls) :
          LET c == dest.calls[k]
          IN  /\ c.err = "" =>
                    /\ c.opened.path > c.from /\ ~c.opened.closed
                    /\ \A j \in 1 .. k - 1 :
                          dest.calls[j].err = "" =>
                              dest.calls[j].opened.path < c.opened.path
                    /\ \A p \in c.from + 1 .. c.opened.path - 1 :
                          Found(p, Exts(c.exts)) = <<>>
                    /\ Found(c.opened.path, Exts(c.exts)) # <<>>
                    /\ c.opened.name = Head(Found(c.opened.path, Exts(c.exts)))
              /\ c.err = ErrNotExist =>
                    /\ \A p \in c.from + 1 .. Len(input.paths) :
                          Found(p, Exts(c.exts)) = <<>>
                    /\ k < Len(dest.calls) => dest.calls[k + 1].err = ErrNotExist

\* C22 (amended): no file is open before the first call of Next; the calls
\* that open a file open files of increasing paths, each the first file of
\* the path in the order of exts among the extensions the name allows (all
\* for a name without an extension, its own otherwise), the paths passed
\* over having none; a call returns the not-exist error only when no path is
\* left with such a file, and every later call returns it too.
C22_NextVisitsPaths == NextVisits(AllowedExts)

\* The name has an extension and exts puts another first: a file of that
\* other extension is in the first path, the file of the name is opened;
\* then the file of the second path, then the not-exist error twice.
C22_Witness ==
    /\ input.name = Stem \o ExtToml
    /\ Len(input.paths) = 2 /\ Len(dest.calls) = 4
    /\ dest.calls[1].exts = <<ExtJson, ExtToml>>
    /\ FsOpen(input.paths[1], Stem \o ExtJson) = "file"
    /\ dest.calls[1].err = "" /\ dest.calls[1].opened.path = 1
    /\ dest.calls[1].opened.name = Stem \o ExtToml
    /\ dest.calls[2].err = "" /\ dest.calls[2].opened.path = 2
    /\ dest.calls[3].err = ErrNotExist /\ dest.calls[4].err = ErrNotExist

\* C22 as stated: the file opened in a path is the first in the order of
\* exts for which a file of the requested stem exists in the path.
WholeList(exts) == exts
C22_FirstExistingExtension == NextVisits(WholeList)

(***************************************************************************)
(* Key paths against nested documents.  input is a document whose keys are *)
(* key paths; dest holds the destination bound to it and the destination   *)
(* bound to the nested document of string keys and lists that spells the   *)
(* same tree, both from the zero value of one of the destination types.    *)
(***************************************************************************)
MaxKeys == 3

Entry(path, value) == [path |-> path, value |-> value]

kbogus == <<"b", "o", "g", "u", "s">>

\* The keys of the documents: paths through the records, the slices, the
\* array, the map and the interface{} of Settings, to fields that do not
\* exist, and to values of the wrong type.
PathEntries ==
    {Entry(<<KeyStr(kname)>>, Str(<<"a">>)),
     Entry(<<KeyStr(kserver), KeyStr(kip)>>, Str(<<"a">>)),
     Entry(<<KeyStr(kserver), KeyStr(kport)>>, Num(IntValue(2))),
     Entry(<<KeyStr(kserver), KeyStr(kbogus)>>, Num(IntValue(1))),
     Entry(<<KeyStr(kservers), KeyIdx(0), KeyStr(kip)>>, Str(<<"a">>)),
     Entry(<<KeyStr(kservers), KeyIdx(0), KeyStr(kport)>>, Num(IntValue(1))),
     Entry(<<KeyStr(kservers), KeyIdx(1), KeyStr(kport)>>, Num(IntValue(2))),
     Entry(<<KeyStr(ktags), KeyIdx(0)>>, Str(<<"x">>)),
     Entry(<<KeyStr(ktags), KeyIdx(1)>>, Str(<<"y">>)),
     Entry(<<KeyStr(kpair), KeyIdx(0)>>, Num(IntValue(1))),
     Entry(<<KeyStr(kpair), KeyIdx(1)>>, Num(IntValue(2))),
     Entry(<<KeyStr(klimits), KeyStr(<<"a">>)>>, Num(IntValue(1))),
     Entry(<<KeyStr(klimits), KeyStr(<<"b">>)>>, Num(IntValue(2))),
     Entry(<<KeyStr(kextra), KeyStr(<<"m">>), KeyStr(<<"x">>)>>, Num(IntValue(1))),
     Entry(<<KeyStr(kextra), KeyStr(<<"m">>), KeyStr(<<"y">>)>>, Str(<<"b">>)),
     Entry(<<KeyStr(kextra), KeyStr(<<"l">>), KeyIdx(0)>>, Str(<<"x">>)),
     Entry(<<KeyStr(kextra), KeyStr(<<"l">>), KeyIdx(1)>>, Num(IntValue(2))),
     Entry(<<KeyStr(kbogus), KeyStr(<<"x">>)>>, Num(IntValue(1))),
     Entry(<<KeyStr(<<"a">>)>>, Num(IntValue(1))),
     Entry(<<KeyStr(klevel)>>, Num(IntValue(300)))}

PathEntriesOf(node) ==
    [i \in 1 .. Len(node.Children) |->
        Entry(node.Children[i].Value.path, node.Children[i].Children[1])]

PathDoc(entries) ==
    Object([i \in 1 .. Len(entries) |-> KeyPath(entries[i].path, entries[i].value)])

\* The first components of the paths, each once, in the order of the keys.
RECURSIVE Distinct(_)
Distinct(s) ==
    IF s = <<>> THEN <<>>
    ELSE LET d == Distinct(SubSeq(s, 1, Len(s) - 1))
         IN  IF \E i \in 1 .. Len(d) : d[i] = s[Len(s)] THEN d ELSE Append(d, s[Len(s)])
Heads(entries) == Distinct([i \in 1 .. Len(entries) |-> Head(entries[i].path)])

\* The entries below the component k, without it.
Under(entries, k) ==
    LET sub == SelectSeq(entries, LAMBDA e : Head(e.path) = k)
    IN  [i \in 1 .. Len(sub) |-> Entry(Tail(sub[i].path), sub[i].value)]

\* The entries spell a tree: the components at one place are all names or
\* the indices 0 .. n-1, and a path that holds a value is no prefix of
\* another.
RECURSIVE Nestable(_)
Nestable(entries) ==
    /\ entries # <<>>
    /\ LET hs == Heads(entries)
       IN  /\ \/ \A i \in 1 .. Len(hs) : ~hs[i].int
              \/ {hs[i] : i \in 1 .. Len(hs)} = {KeyIdx(n) : n \in 0 .. Len(hs) - 1}
           /\ \A i \in 1 .. Len(hs) :
                 LET sub == Under(entries, hs[i])
                 IN  \/ Len(sub) = 1 /\ sub[1].path = <<>>
                     \/ /\ \A j \in 1 .. Len(sub) : sub[j].path # <<>>
                        /\ Nestable(sub)

\* The nested document of the entries: an object of string keys in the
\* order of the first occurrences, or a list in the order of the indices.
RECURSIVE Nest(_)
NestGroup(sub) == IF sub[1].path = <<>> THEN sub[1].value ELSE Nest(sub)
Nest(entries) ==
    LET hs == Heads(entries)
    IN  IF hs[1].int
        THEN List([i \in 1 .. Len(hs) |-> NestGroup(Under(entries, KeyIdx(i - 1)))])
        ELSE Object([i \in 1 .. Len(hs) |->
                        Member(hs[i].s, NestGroup(Under(entries, hs[i])))])

PathDocs ==
    {PathDoc(es) : es \in {s \in UNION {[1 .. n -> PathEntries] : n \in 1 .. MaxKeys} :
                              Nestable(s)}}

Unbound == [done |-> FALSE, val |-> ValueOf(InterfaceKind, NilValue), err |-> NoError]

PathInit ==
    /\ input \in PathDocs
    /\ lexer = NewLexer(<<>>, "lex")
    /\ parser = NewParse
    /\ output = NoOutput
    /\ env = NoEnv
    /\ \E typ \in DestTypes :
          dest = [pc |-> "paths", typ |-> typ, keypath |-> Unbound, nested |-> Unbound]

Binding(r) == [done |-> TRUE, val |-> r.val, err |-> r.err]

\* reflectutil.Unmarshal of the document of key paths into a new
\* destination.
BindKeyPaths ==
    /\ dest.pc = "paths" /\ ~dest.keypath.done
    /\ dest' = [dest EXCEPT !.keypath =
                    Binding(Unmarshal(ValueOf(dest.typ, Zero(dest.typ)), input))]
    /\ UNCHANGED <<input, lexer, parser, output, env>>

\* reflectutil.Unmarshal of the nested document into a new destination.
BindNested ==
    /\ dest.pc = "paths" /\ ~dest.nested.done
    /\ dest' = [dest EXCEPT !.nested =
                    Binding(Unmarshal(ValueOf(dest.typ, Zero(dest.typ)),
                                      Nest(PathEntriesOf(input))))]
    /\ UNCHANGED <<input, lexer, parser, output, env>>

PathNext ==
    \/ BindKeyPaths
    \/ BindNested

SpecPaths == PathInit /\ [][PathNext]_vars

\* C21: a document of key paths leaves the destination equal to the one
\* the nested document of the same tree leaves, and returns an error when
\* and only when the nested document does.
C21_KeyPathsAsNested ==
    (dest.pc = "paths" /\ dest.keypath.done /\ dest.nested.done) =>
        /\ dest.keypath.val = dest.nested.val
        /\ (dest.keypath.err = NoError) = (dest.nested.err = NoError)

\* servers.1.port = 2, servers.0.ip = "a", extra.m.x = 1 into a Settings:
\* the list of servers was grown to two records, the second Set kept the
\* port the first stored, and the interface{} holds a map of a map.
C21_Witness ==
    /\ dest.pc = "paths" /\ dest.keypath.done /\ dest.nested.done
    /\ dest.typ = Settings
    /\ Len(input.Children) = 3
    /\ input.Children[1].Value.path = <<KeyStr(kservers), KeyIdx(1), KeyStr(kport)>>
    /\ input.Children[2].Value.path = <<KeyStr(kservers), KeyIdx(0), KeyStr(kip)>>
    /\ dest.keypath.err = NoError
    /\ dest.keypath.val.v.f[8] =
          ListValue(<<StructValue(<<StringOf(<<"a">>), IntOf(0)>>),
                      StructValue(<<StringOf(<<>>), IntOf(2)>>)>>)
    /\ dest.keypath.val.v.f[10].k = "map"
    /\ DOMAIN dest.keypath.val.v.f[10].m = {KeyStr(<<"m">>)}
    /\ DOMAIN dest.keypath.val.v.f[10].m[KeyStr(<<"m">>)].m = {KeyStr(<<"x">>)}
    /\ dest.nested.val = dest.keypath.val

====
